---- MODULE Spec2Model ----
(***************************************************************************)
(* Sales reporting of the point-of-sale application:                       *)
(*   - the time-bucket aggregators and getDashboardStats of                *)
(*     services/dashboardService.ts,                                       *)
(*   - the SalesReport component (fetchData effect, generateSalesData,     *)
(*     getFilteredProductSales, handleDownload, tabs and filters),         *)
(*   - the pages BillHistory (select and delete a bill) and Login.         *)
(***************************************************************************)
EXTENDS Integers, Sequences, FiniteSets, TLC

VARIABLES
    now,               \* the instant `new Date()` returns
    \* services/dashboardService.ts
    billsTable,        \* rows of the backend table "bills"
    salesSeries,       \* what the last aggregator call returned, and from which rows
    \* SalesReport: component state (useState)
    isLoading,
    reportData,
    loadError,
    dateRange,
    selectedCategory,
    selectedBrand,
    searchQuery,
    isCalendarOpen,
    activeTab,
    isDownloading,
    lastToast,         \* the toast shown last (the toaster keeps one)
    domLinks,          \* the <a> elements handleDownload has left in document.body
    savedFiles,        \* the files the browser has saved on link.click()
    downloads,         \* history: the calls of handleDownload and how generation ended
    \* SalesReport: the runs of the fetchData effect
    pendingEffects,    \* date ranges committed whose effect has not run yet
    refreshes,         \* the fetchData calls made, in the order they were issued
    lastSettled,       \* history: the refresh that settled last (0: none yet)
    rangeSelections,   \* history: how often setDateRange has been called
    \* SalesReport: generateSalesData
    bills,             \* the bills handed to generateSalesData
    generated,         \* what generateSalesData returned
    \* services/dashboardService.ts: the backend and a read operation on it
    productsTable,     \* rows of the backend table "products"
    billItemsTable,    \* rows of the backend table "bill_items"
    readCall,          \* the read operation called last and how far it is
    queryLog,          \* the queries that call has sent, each with its reply
    \* pages/BillHistory.tsx
    selectedBill,      \* useState: the id of the selected bill, or NoBill
    isReceiptOpen,     \* useState
    billsData,         \* `data: bills` of useQuery(['bills']): the ids listed
    storedBills,       \* the ids of the bills the backend holds
    deletions,         \* the handleDeleteBill calls made, each with its closure
    historyToast,      \* the toast BillHistory has shown last
    \* pages/Login.tsx
    email,             \* useState
    password,          \* useState
    loginIsLoading,    \* useState isLoading of Login
    isLoggedIn,        \* useAuth().isLoggedIn
    loginCalls,        \* the handleLogin calls made and where each stands
    loginToast         \* the toast Login has shown last

aggVars == <<billsTable, salesSeries>>

\* the component state the fetchData effect reads and writes, and its runs
viewVars == <<isLoading, reportData, loadError, dateRange, isCalendarOpen, lastToast, refreshes,
             lastSettled, rangeSelections>>

fetchVars == <<viewVars, pendingEffects>>

filterVars == <<selectedCategory, selectedBrand, searchQuery>>

sumVars == <<bills, generated>>

downloadVars == <<activeTab, isDownloading, domLinks, savedFiles, downloads>>

readVars == <<productsTable, billItemsTable, readCall, queryLog>>

historyVars == <<selectedBill, isReceiptOpen, billsData, storedBills, deletions, historyToast>>

loginVars == <<email, password, loginIsLoading, isLoggedIn, loginCalls, loginToast>>

pageVars == <<historyVars, loginVars>>

vars == <<now, aggVars, fetchVars, filterVars, sumVars, downloadVars, readVars, pageVars>>

\* null, where a string is expected (loadError)
null == "null"

\* null, where a SalesReportData object is expected (reportData)
NullReport == [isNull |-> TRUE]

\* no bill in the table, no aggregator called yet
AggIdle ==
    /\ billsTable = <<>>
    /\ salesSeries = [kind |-> "none", rows |-> <<>>, points |-> <<>>]

\* generateSalesData not called, no bills to hand to it
SumIdle ==
    /\ bills = <<>>
    /\ generated = [called |-> FALSE]

\* the error field of a backend reply that carries data
NoError == [message |-> "none"]

\* no value returned
NoValue == [isNone |-> TRUE]

\* the promise of a read operation that has not settled
Pending == [state |-> "pending", value |-> NoValue, error |-> NoError]

\* the locals of getDashboardStats before its first query has returned
NoHeld == [totalSales |-> 0, todaySales |-> 0, lowStockItems |-> 0, outOfStockItems |-> 0]

\* no read operation called, the other backend tables empty
ReadIdle ==
    /\ productsTable = <<>>
    /\ billItemsTable = <<>>
    /\ readCall = [op |-> "none", pc |-> "idle", held |-> NoHeld, outcome |-> Pending]
    /\ queryLog = <<>>

\* no toast shown yet
NoToast == [title |-> "none", variant |-> "none"]

\* null, where a Bill is expected (selectedBill)
NoBill == "none"

\* BillHistory as it is before any bill exists
HistoryIdle ==
    /\ selectedBill = NoBill
    /\ isReceiptOpen = FALSE
    /\ billsData = {}
    /\ storedBills = {}
    /\ deletions = <<>>
    /\ historyToast = NoToast

\* Login as it is mounted, with nobody logged in
LoginIdle ==
    /\ email = ""
    /\ password = ""
    /\ loginIsLoading = FALSE
    /\ isLoggedIn = FALSE
    /\ loginCalls = <<>>
    /\ loginToast = NoToast

\* useState initial values of the tab and the download flag; nothing downloaded
DownloadIdle ==
    /\ activeTab = "daily"
    /\ isDownloading = FALSE
    /\ domLinks = <<>>
    /\ savedFiles = <<>>
    /\ downloads = <<>>

(***************************************************************************)
(* Bounds of the model.                                                    *)
(***************************************************************************)
\* rows the backend table holds at most
MaxRows == 2
\* instants distinguished within one calendar day
SlotsPerDay == 2

(***************************************************************************)
(* Calendar: JavaScript Date and the date-fns helpers.  An instant is      *)
(* days-since-1970-01-01 * SlotsPerDay + slot of the day (local time).     *)
(***************************************************************************)
DayOf(ts) == ts \div SlotsPerDay

SlotOf(ts) == ts % SlotsPerDay

IsLeap(y) == (y % 4 = 0 /\ y % 100 # 0) \/ y % 400 = 0

DaysInMonth(y, m) ==
    IF m = 2 THEN (IF IsLeap(y) THEN 29 ELSE 28)
    ELSE IF m \in {4, 6, 9, 11} THEN 30 ELSE 31

\* day number of the civil date y-m-d (proleptic Gregorian, 1970-01-01 = 0)
DaysFromCivil(y, m, d) ==
    LET yy  == IF m <= 2 THEN y - 1 ELSE y
        era == yy \div 400
        yoe == yy - era * 400
        mp  == (m + 9) % 12
        doy == (153 * mp + 2) \div 5 + d - 1
        doe == yoe * 365 + yoe \div 4 - yoe \div 100 + doy
    IN  era * 146097 + doe - 719468

\* civil date of a day number
CivilFromDays(z) ==
    LET zz  == z + 719468
        era == zz \div 146097
        doe == zz - era * 146097
        yoe == (doe - doe \div 1460 + doe \div 36524 - doe \div 146096) \div 365
        doy == doe - (365 * yoe + yoe \div 4 - yoe \div 100)
        mp  == (5 * doy + 2) \div 153
        d   == doy - (153 * mp + 2) \div 5 + 1
        m   == IF mp < 10 THEN mp + 3 ELSE mp - 9
        y   == yoe + era * 400 + (IF m <= 2 THEN 1 ELSE 0)
    IN  [y |-> y, m |-> m, d |-> d]

MakeTs(y, m, d, slot) == DaysFromCivil(y, m, d) * SlotsPerDay + slot

DateOf(ts) == CivilFromDays(DayOf(ts))

\* Date.getDay(): 0 = Sunday
GetDay(ts) == (DayOf(ts) + 4) % 7

subDays(ts, n) == ts - n * SlotsPerDay

subWeeks(ts, n) == subDays(ts, 7 * n)

\* date-fns addMonths(-n): same day of month, clamped to the target month's end
subMonths(ts, n) ==
    LET c   == DateOf(ts)
        idx == c.y * 12 + (c.m - 1) - n
        y   == idx \div 12
        m   == (idx % 12) + 1
        dim == DaysInMonth(y, m)
        d   == IF c.d > dim THEN dim ELSE c.d
    IN  MakeTs(y, m, d, SlotOf(ts))

subYears(ts, n) == subMonths(ts, 12 * n)

startOfYear(ts) == MakeTs(DateOf(ts).y, 1, 1, 0)

\* date-fns startOfWeek with the default weekStartsOn = 0 (Sunday)
startOfWeek(ts) == (DayOf(ts) - GetDay(ts)) * SlotsPerDay

(***************************************************************************)
(* format(): a label keeps only the fields its pattern prints.             *)
(***************************************************************************)
FormatMMMdd(ts) == [pattern |-> "MMM dd", y |-> 0, m |-> DateOf(ts).m, d |-> DateOf(ts).d]

FormatWeek(ts) == [pattern |-> "Week dd MMM", y |-> 0, m |-> DateOf(ts).m, d |-> DateOf(ts).d]

\* format(date, 'MMM yyyy'): the month name with its year
FormatMMM_WithYear(ts) == [pattern |-> "MMM", y |-> DateOf(ts).y, m |-> DateOf(ts).m, d |-> 0]

FormatMMM(ts) == [pattern |-> "MMM", y |-> 0, m |-> DateOf(ts).m, d |-> 0]

FormatYYYY(ts) == [pattern |-> "yyyy", y |-> DateOf(ts).y, m |-> 0, d |-> 0]

(***************************************************************************)
(* A JavaScript object used as Record<string, number>: its own string keys *)
(* in insertion order, each with its value.                                *)
(***************************************************************************)
HasKey(obj, k) == \E i \in 1..Len(obj) : obj[i].label = k

\* obj[k] || 0
GetOrZero(obj, k) ==
    IF HasKey(obj, k)
    THEN (CHOOSE e \in {obj[i] : i \in 1..Len(obj)} : e.label = k).sales
    ELSE 0

\* obj[k] = v
SetKey(obj, k, v) ==
    IF HasKey(obj, k)
    THEN [i \in 1..Len(obj) |-> IF obj[i].label = k THEN [label |-> k, sales |-> v] ELSE obj[i]]
    ELSE Append(obj, [label |-> k, sales |-> v])

\* a key that is a canonical array index ("2024"): the year labels
IsIntegerKey(k) == k.pattern = "yyyy"

RECURSIVE SortByYear(_)
SortByYear(s) ==
    IF s = <<>> THEN <<>>
    ELSE LET i == CHOOSE j \in 1..Len(s) : \A l \in 1..Len(s) : s[j].label.y <= s[l].label.y
         IN  <<s[i]>> \o SortByYear(SubSeq(s, 1, i - 1) \o SubSeq(s, i + 1, Len(s)))

\* Object.entries(): integer keys in ascending numeric order, then the other
\* keys in insertion order
ObjectEntries(obj) ==
    SortByYear(SelectSeq(obj, LAMBDA e : IsIntegerKey(e.label)))
        \o SelectSeq(obj, LAMBDA e : ~IsIntegerKey(e.label))

Reverse(s) == [i \in 1..Len(s) |-> s[Len(s) + 1 - i]]

(***************************************************************************)
(* The backend query of an aggregator.                                     *)
(***************************************************************************)
\* .gte('created_at', from).lte('created_at', to).eq('status', 'completed')
QueryBills(table, from, to) ==
    SelectSeq(table, LAMBDA b :
        b.created_at >= from /\ b.created_at <= to /\ b.status = "completed")

(***************************************************************************)
(* The four aggregators.                                                   *)
(***************************************************************************)
DailyWindow == 30
WeeklyWindow == 12
MonthlyWindow == 12
YearlyWindow == 5

\* for (let i = 0; i < n; i++) totals[label(i)] = 0, over the labels of i = 0..n-1
RECURSIVE SeedTotals(_, _)
SeedTotals(obj, labels) ==
    IF labels = <<>> THEN obj
    ELSE SeedTotals(SetKey(obj, Head(labels), 0), Tail(labels))

\* bills?.forEach(bill => totals[label] = (totals[label] || 0) + Number(bill.total)),
\* over the bills' <<label, total>>
RECURSIVE AddBills(_, _)
AddBills(obj, keyed) ==
    IF keyed = <<>> THEN obj
    ELSE LET k == Head(keyed).label
         IN  AddBills(SetKey(obj, k, GetOrZero(obj, k) + Head(keyed).total), Tail(keyed))

\* ToChart that leaves out the periods without sales
ToChart_DropsEmpty(obj) == Reverse(SelectSeq(ObjectEntries(obj), LAMBDA e : e.sales # 0))

\* Object.entries(totals).map(([label, total]) => ({label, sales: total})).reverse()
ToChart(obj) == Reverse(ObjectEntries(obj))

DailyLabels(today) == [i \in 1..DailyWindow |-> FormatMMMdd(subDays(today, i - 1))]

DailyQuery(today, table) == QueryBills(table, subDays(today, 30), today)

getDailySalesData(today, table) ==
    LET rows  == DailyQuery(today, table)
        keyed == [i \in 1..Len(rows) |->
                    [label |-> FormatMMMdd(rows[i].created_at), total |-> rows[i].total]]
    IN  ToChart(AddBills(SeedTotals(<<>>, DailyLabels(today)), keyed))

WeeklyLabels(today) == [i \in 1..WeeklyWindow |-> FormatWeek(subWeeks(today, i - 1))]

WeeklyQuery(today, table) == QueryBills(table, subWeeks(today, 12), today)

getWeeklySalesData(today, table) ==
    LET rows  == WeeklyQuery(today, table)
        keyed == [i \in 1..Len(rows) |->
                    [label |-> FormatWeek(startOfWeek(rows[i].created_at)), total |-> rows[i].total]]
    IN  ToChart(AddBills(SeedTotals(<<>>, WeeklyLabels(today)), keyed))

MonthlyLabels(today) == [i \in 1..MonthlyWindow |-> FormatMMM(subMonths(today, i - 1))]

MonthlyQuery(today, table) == QueryBills(table, startOfYear(subYears(today, 1)), today)

getMonthlySalesData(today, table) ==
    LET rows  == MonthlyQuery(today, table)
        keyed == [i \in 1..Len(rows) |->
                    [label |-> FormatMMM(rows[i].created_at), total |-> rows[i].total]]
    IN  ToChart(AddBills(SeedTotals(<<>>, MonthlyLabels(today)), keyed))

YearlyLabels(today) == [i \in 1..YearlyWindow |-> FormatYYYY(subYears(today, i - 1))]

YearlyQuery(today, table) == QueryBills(table, subYears(today, 5), today)

getYearlySalesData(today, table) ==
    LET rows  == YearlyQuery(today, table)
        keyed == [i \in 1..Len(rows) |->
                    [label |-> FormatYYYY(rows[i].created_at), total |-> rows[i].total]]
    IN  ToChart(AddBills(SeedTotals(<<>>, YearlyLabels(today)), keyed))

(***************************************************************************)
(* SalesReport: the fetchData effect and the view-model it writes.         *)
(***************************************************************************)
\* refreshes the model lets the component issue in one behaviour
MaxRefreshes == 3

\* the five operations Promise.all waits for
Fetches == {"daily", "weekly", "monthly", "yearly", "sales"}

\* date-fns startOfDay / endOfDay: the first and the last instant of the day
startOfDay(ts) == DayOf(ts) * SlotsPerDay

endOfDay(ts) == DayOf(ts) * SlotsPerDay + (SlotsPerDay - 1)

\* useState initial value of dateRange: { from: subDays(new Date(), 30), to: new Date() }
InitialRange == [from |-> subDays(now, 30), to |-> now]

\* the ranges the calendar may hand to setDateRange (days, at midnight)
RangeChoices ==
    { [from |-> startOfDay(subDays(now, 30)), to |-> startOfDay(now)],
      [from |-> startOfDay(subDays(now, 7)),  to |-> startOfDay(subDays(now, 1))] }

\* useState initial values: isLoading true, reportData null, loadError null,
\* dateRange the last 30 days; the mount commits and its effect is still to run
ViewMounted ==
    /\ isLoading = TRUE
    /\ reportData = NullReport
    /\ loadError = null
    /\ dateRange = InitialRange
    /\ selectedCategory = "all"
    /\ selectedBrand = "all"
    /\ searchQuery = <<>>
    /\ isCalendarOpen = FALSE
    /\ lastToast = NoToast
    /\ pendingEffects = << InitialRange >>
    /\ refreshes = <<>>
    /\ lastSettled = 0
    /\ rangeSelections = 0
    /\ DownloadIdle

\* what fetch f of refresh r resolved with
FetchResult(r, f) == <<r, f>>

\* the object fetchData hands to setReportData once all five have resolved
BuildReportData(r) ==
    [ dailySales          |-> FetchResult(r, "daily"),
      weeklySales         |-> FetchResult(r, "weekly"),
      monthlySales        |-> FetchResult(r, "monthly"),
      yearlySales         |-> FetchResult(r, "yearly"),
      productSalesDetails |-> FetchResult(r, "sales") ]

FetchErrorMessage == "Failed to fetch sales data. Please try again later."

\* the component renders the tabs and the calendar only past its three early
\* returns (loading, error, no data)
CalendarRendered == ~isLoading /\ loadError = null /\ reportData # NullReport

InFlight(r) == refreshes[r].state = "inflight"

\* the filter controls are part of the products tab
FiltersRendered == CalendarRendered /\ activeTab = "products"

\* an effect without dependency array, run after every render
EffectDeps_EveryRender ==
    {"dateRange", "isCalendarOpen", "activeTab", "selectedCategory", "selectedBrand", "searchQuery"}

\* the dependency array [dateRange, toast] of the effect; toast is the same
\* function in every render
EffectDeps == {"dateRange"}

\* the commit of a render in which the state variables in `changed` have new
\* values: the effect is due again if one of its dependencies is among them
AfterCommit(changed) ==
    IF changed \cap EffectDeps # {} THEN Append(pendingEffects, dateRange') ELSE pendingEffects

\* Popover.onOpenChange: the range button opens the calendar, a click outside
\* closes it
SetIsCalendarOpen(open) ==
    /\ CalendarRendered
    /\ open # isCalendarOpen
    /\ isCalendarOpen' = open
    /\ UNCHANGED <<isLoading, reportData, loadError, dateRange, lastToast, refreshes,
                   lastSettled, rangeSelections>>
    /\ pendingEffects' = AfterCommit({"isCalendarOpen"})
    /\ UNCHANGED <<now, aggVars, filterVars, sumVars, downloadVars, readVars, pageVars>>

\* Calendar.onSelect with a complete range: setDateRange (a new object each time,
\* so the dependency of the effect always changes) and setIsCalendarOpen(false).
\* The commit's effect is left to run: useEffect is deferred, and what is handled
\* before it runs acts on the view as committed
SelectRange(d) ==
    /\ CalendarRendered
    /\ isCalendarOpen
    /\ Len(refreshes) + Len(pendingEffects) < MaxRefreshes
    /\ dateRange' = d
    /\ isCalendarOpen' = FALSE
    /\ pendingEffects' = AfterCommit({"dateRange", "isCalendarOpen"})
    /\ rangeSelections' = rangeSelections + 1
    /\ UNCHANGED <<isLoading, reportData, loadError, lastToast, refreshes, lastSettled>>
    /\ UNCHANGED <<now, aggVars, filterVars, sumVars, downloadVars, readVars, pageVars>>

\* the effect of a commit runs: fetchData() up to its await
RunEffect ==
    /\ pendingEffects # <<>>
    /\ isLoading' = TRUE
    /\ loadError' = null
    /\ refreshes' = Append(refreshes,
          [dateRange |-> Head(pendingEffects), resolved |-> {}, state |-> "inflight",
           dropped |-> FALSE])
    /\ pendingEffects' = Tail(pendingEffects)
    /\ UNCHANGED <<reportData, dateRange, isCalendarOpen, lastToast, lastSettled, rangeSelections>>
    /\ UNCHANGED <<now, aggVars, filterVars, sumVars, downloadVars, readVars, pageVars>>

\* ApplySuccess with a generation check: only the refresh issued last is applied
ApplySuccess_LatestOnly(r) ==
    /\ reportData' = IF r = Len(refreshes) THEN BuildReportData(r) ELSE reportData
    /\ isLoading' = FALSE
    /\ UNCHANGED <<loadError, lastToast>>

\* after the await, all five resolved: setReportData, then finally
ApplySuccess(r) ==
    /\ reportData' = BuildReportData(r)
    /\ isLoading' = FALSE
    /\ UNCHANGED <<loadError, lastToast>>

\* one fetch of refresh r resolves; with the last one Promise.all resolves and
\* fetchData continues in the same turn of the event loop
FetchResolve(r, f) ==
    /\ InFlight(r)
    /\ f \notin refreshes[r].resolved
    /\ IF refreshes[r].resolved \cup {f} = Fetches
       THEN /\ refreshes' = [refreshes EXCEPT ![r].resolved = @ \cup {f}, ![r].state = "done"]
            /\ ApplySuccess(r)
            /\ lastSettled' = r
       ELSE /\ refreshes' = [refreshes EXCEPT ![r].resolved = @ \cup {f}]
            /\ UNCHANGED <<isLoading, reportData, loadError, lastToast, lastSettled>>
    /\ UNCHANGED <<dateRange, isCalendarOpen, pendingEffects, rangeSelections>>
    /\ UNCHANGED <<now, aggVars, filterVars, sumVars, downloadVars, readVars, pageVars>>

\* ApplyFailure that also shows what refresh r had fetched
ApplyFailure_ShowsPartial(r) ==
    /\ loadError' = FetchErrorMessage
    /\ lastToast' = [title |-> "Error", variant |-> "destructive"]
    /\ isLoading' = FALSE
    /\ reportData' = BuildReportData(r)

\* the catch block (setLoadError and the toast), then finally
ApplyFailure(r) ==
    /\ loadError' = FetchErrorMessage
    /\ lastToast' = [title |-> "Error", variant |-> "destructive"]
    /\ isLoading' = FALSE
    /\ UNCHANGED reportData

\* one fetch of refresh r rejects: Promise.all rejects at once, the results it
\* held are dropped and fetchData continues in its catch block; what the other
\* fetches of r do later reaches no state of the component
FetchReject(r, f) ==
    /\ InFlight(r)
    /\ f \notin refreshes[r].resolved
    /\ refreshes' = [refreshes EXCEPT ![r].resolved = {}, ![r].state = "failed",
                                      ![r].dropped = (refreshes[r].resolved # {})]
    /\ ApplyFailure(r)
    /\ lastSettled' = r
    /\ UNCHANGED <<dateRange, isCalendarOpen, pendingEffects, rangeSelections>>
    /\ UNCHANGED <<now, aggVars, filterVars, sumVars, downloadVars, readVars, pageVars>>

ReportInit ==
    /\ HistoryIdle
    /\ LoginIdle
    /\ now = MakeTs(2026, 11, 6, 1)
    /\ AggIdle
    /\ SumIdle
    /\ ReadIdle
    /\ ViewMounted

ReportNext ==
    \/ \E open \in BOOLEAN : SetIsCalendarOpen(open)
    \/ \E d \in RangeChoices : SelectRange(d)
    \/ RunEffect
    \/ \E r \in 1..Len(refreshes), f \in Fetches : FetchResolve(r, f)
    \/ \E r \in 1..Len(refreshes), f \in Fetches : FetchReject(r, f)

SpecReport == ReportInit /\ [][ReportNext]_vars

(***************************************************************************)
(* Inputs of the aggregator specification.                                 *)
(***************************************************************************)
\* instants `new Date()` may return: a Friday, a Sunday, a leap day
Nows == { MakeTs(2026, 11, 6, 0), MakeTs(2026, 11, 8, 0), MakeTs(2024, 2, 29, 0) }

\* when a bill was created, as <<days before today, slot of that day>>
BillAges == { <<0, 0>>, <<30, 1>>, <<400, 0>>, <<1826, 1>> }

Totals == {0, 100, 250}

\* the bills the checkout flow may add: completed ones of every age and total, and
\* one that is still pending
NewBills(today) ==
    { [created_at |-> subDays(today, a[1]) - SlotOf(today) + a[2], total |-> t, status |-> "completed"] :
        a \in BillAges, t \in Totals }
    \cup { [created_at |-> today, total |-> 100, status |-> "pending"] }

AggInit ==
    /\ HistoryIdle
    /\ LoginIdle
    /\ now \in Nows
    /\ AggIdle
    /\ SumIdle
    /\ ReadIdle
    /\ ViewMounted

\* the checkout flow (not part of these files) adds a bill
InsertBill ==
    /\ Len(billsTable) < MaxRows
    /\ \E b \in NewBills(now) : billsTable' = Append(billsTable, b)
    /\ UNCHANGED <<now, salesSeries, fetchVars, filterVars, sumVars, downloadVars, readVars, pageVars>>

\* a call of getDailySalesData(): the rows its query returned and its result
CallDaily ==
    /\ salesSeries' = [kind |-> "daily", rows |-> DailyQuery(now, billsTable),
                       points |-> getDailySalesData(now, billsTable)]
    /\ UNCHANGED <<now, billsTable, fetchVars, filterVars, sumVars, downloadVars, readVars, pageVars>>

CallWeekly ==
    /\ salesSeries' = [kind |-> "weekly", rows |-> WeeklyQuery(now, billsTable),
                       points |-> getWeeklySalesData(now, billsTable)]
    /\ UNCHANGED <<now, billsTable, fetchVars, filterVars, sumVars, downloadVars, readVars, pageVars>>

CallMonthly ==
    /\ salesSeries' = [kind |-> "monthly", rows |-> MonthlyQuery(now, billsTable),
                       points |-> getMonthlySalesData(now, billsTable)]
    /\ UNCHANGED <<now, billsTable, fetchVars, filterVars, sumVars, downloadVars, readVars, pageVars>>

CallYearly ==
    /\ salesSeries' = [kind |-> "yearly", rows |-> YearlyQuery(now, billsTable),
                       points |-> getYearlySalesData(now, billsTable)]
    /\ UNCHANGED <<now, billsTable, fetchVars, filterVars, sumVars, downloadVars, readVars, pageVars>>

AggNext == InsertBill \/ CallDaily \/ CallWeekly \/ CallMonthly \/ CallYearly

SpecAgg == AggInit /\ [][AggNext]_vars

(***************************************************************************)
(* SalesReport: getFilteredProductSales.  Product names, ids and the search *)
(* text are sequences of characters.                                       *)
(***************************************************************************)
\* longest search text typed
MaxQueryLen == 2

Chars == {"a", "A", "b", "1"}

\* String.prototype.toLowerCase, character by character
LowerChar(c) == IF c = "A" THEN "a" ELSE c

toLowerCase(str) == [i \in 1..Len(str) |-> LowerChar(str[i])]

\* String.prototype.includes
includes(str, sub) ==
    \E i \in 0..(Len(str) - Len(sub)) : SubSeq(str, i + 1, i + Len(sub)) = sub

\* the three predicates of the filter callback
matchesCategory(product, category) == category = "all" \/ product.category = category

matchesBrand(product, brand) == brand = "all" \/ product.brand = brand

matchesSearch(product, query) ==
    \/ query = <<>>
    \/ includes(toLowerCase(product.name), toLowerCase(query))
    \/ includes(toLowerCase(product.id), toLowerCase(query))

\* the filter callback with || between the predicates
FilterAny(product, category, brand, query) ==
    \/ matchesCategory(product, category)
    \/ matchesBrand(product, brand)
    \/ matchesSearch(product, query)

FilterAll(product, category, brand, query) ==
    /\ matchesCategory(product, category)
    /\ matchesBrand(product, brand)
    /\ matchesSearch(product, query)

getFilteredProductSales(data, category, brand, query) ==
    IF data = NullReport THEN <<>>
    ELSE SelectSeq(data.productSalesDetails,
                   LAMBDA product : FilterAll(product, category, brand, query))

\* the rows the product table renders in the current state
RenderedRows == getFilteredProductSales(reportData, selectedCategory, selectedBrand, searchQuery)

RECURSIVE StringsUpTo(_)
StringsUpTo(n) ==
    IF n = 0 THEN { <<>> }
    ELSE StringsUpTo(n - 1) \cup { Append(str, c) : str \in StringsUpTo(n - 1), c \in Chars }

CategoryChoices == {"all", "Electronics", "Clothing"}

BrandChoices == {"all", "TechBrand", "FashionWear"}

\* a ProductSalesSummary as a refresh delivers it
Detail(id, name, category, brand) ==
    [ id |-> id, name |-> name, category |-> category, brand |-> brand,
      totalQuantity |-> 1, buyingPrice |-> 30, sellingPrice |-> 50,
      totalRevenue |-> 50, totalProfit |-> 20, lastSoldAt |-> now ]

DetailCatalog ==
    << Detail(<<"1">>, <<"A", "b">>, "Electronics", "TechBrand"),
       Detail(<<"a", "1">>, <<"b", "b">>, "Electronics", "FashionWear"),
       Detail(<<"b">>, <<"a", "A">>, "Clothing", "FashionWear"),
       Detail(<<"A">>, <<"b", "1">>, "Clothing", "TechBrand") >>

\* what reportData may hold once a refresh has been applied
LoadedReports ==
    { [ dailySales |-> <<>>, weeklySales |-> <<>>, monthlySales |-> <<>>, yearlySales |-> <<>>,
        productSalesDetails |-> d ] : d \in { <<>>, DetailCatalog, SubSeq(DetailCatalog, 2, 3) } }

\* the component with no report yet, or with one applied and shown
FilterInit ==
    /\ HistoryIdle
    /\ LoginIdle
    /\ now = MakeTs(2026, 11, 6, 1)
    /\ AggIdle
    /\ SumIdle
    /\ ReadIdle
    /\ dateRange = InitialRange
    /\ selectedCategory = "all"
    /\ selectedBrand = "all"
    /\ searchQuery = <<>>
    /\ isCalendarOpen = FALSE
    /\ lastToast = NoToast
    /\ pendingEffects = <<>>
    /\ refreshes = <<>>
    /\ lastSettled = 0
    /\ rangeSelections = 0
    /\ DownloadIdle
    /\ loadError = null
    /\ \/ reportData = NullReport /\ isLoading = TRUE
       \/ reportData \in LoadedReports /\ isLoading = FALSE

\* the values of the tabs
Tabs == {"daily", "weekly", "monthly", "yearly", "products"}

\* Tabs.onValueChange
SetActiveTab(tab) ==
    /\ CalendarRendered
    /\ tab # activeTab
    /\ activeTab' = tab
    /\ UNCHANGED <<viewVars, filterVars, isDownloading, domLinks, savedFiles, downloads>>
    /\ pendingEffects' = AfterCommit({"activeTab"})
    /\ UNCHANGED <<now, aggVars, sumVars, readVars, pageVars>>

\* Select.onValueChange of the category filter
SetSelectedCategory(c) ==
    /\ FiltersRendered
    /\ selectedCategory' = c
    /\ UNCHANGED <<viewVars, selectedBrand, searchQuery>>
    /\ pendingEffects' = AfterCommit(IF c # selectedCategory THEN {"selectedCategory"} ELSE {})
    /\ UNCHANGED <<now, aggVars, sumVars, downloadVars, readVars, pageVars>>

\* Select.onValueChange of the brand filter
SetSelectedBrand(b) ==
    /\ FiltersRendered
    /\ selectedBrand' = b
    /\ UNCHANGED <<viewVars, selectedCategory, searchQuery>>
    /\ pendingEffects' = AfterCommit(IF b # selectedBrand THEN {"selectedBrand"} ELSE {})
    /\ UNCHANGED <<now, aggVars, sumVars, downloadVars, readVars, pageVars>>

\* Input.onChange of the search box
SetSearchQuery(q) ==
    /\ FiltersRendered
    /\ searchQuery' = q
    /\ UNCHANGED <<viewVars, selectedCategory, selectedBrand>>
    /\ pendingEffects' = AfterCommit(IF q # searchQuery THEN {"searchQuery"} ELSE {})
    /\ UNCHANGED <<now, aggVars, sumVars, downloadVars, readVars, pageVars>>

FilterNext ==
    \/ \E tab \in Tabs : SetActiveTab(tab)
    \/ \E c \in CategoryChoices : SetSelectedCategory(c)
    \/ \E b \in BrandChoices : SetSelectedBrand(b)
    \/ \E q \in StringsUpTo(MaxQueryLen) : SetSearchQuery(q)

SpecFilter == FilterInit /\ [][FilterNext]_vars

(***************************************************************************)
(* SalesReport: handleDownload.  The function is async but awaits nothing: *)
(* a click runs it to its end.                                             *)
(***************************************************************************)
\* calls of handleDownload in one behaviour
MaxDownloads == 2

Formats == {"pdf", "excel"}

\* how generateSalesReportPDF / generateSalesReportExcel may end
Generations == {"blob", "throws"}

\* `sales-report-${activeTab}-${new Date().toISOString().split('T')[0]}.pdf` (or .csv)
FileName(format) ==
    [tab |-> activeTab, date |-> DateOf(now), ext |-> IF format = "pdf" THEN "pdf" ELSE "csv"]

DownloadedToast == [title |-> "Report Downloaded", variant |-> "default"]

DownloadFailedToast == [title |-> "Download Failed", variant |-> "destructive"]

\* the try block: generation, then the link (created, appended, clicked) and the
\* toast; a throw of the generation leaves the block at once
TryDownload(format, generation) ==
    IF generation = "throws"
    THEN [threw |-> TRUE, links |-> domLinks, files |-> savedFiles, toast |-> lastToast]
    ELSE [threw |-> FALSE,
          links |-> Append(domLinks, FileName(format)),
          files |-> Append(savedFiles, FileName(format)),
          toast |-> DownloadedToast]

\* the catch block
CatchDownload(tried) == IF tried.threw THEN [tried EXCEPT !.toast = DownloadFailedToast] ELSE tried

\* setIsDownloading(false) as the last statement of the try block
IsDownloadingAfter_TryOnly(tried) == tried.threw

\* setIsDownloading(true) before the try, setIsDownloading(false) in finally
IsDownloadingAfter(tried) == FALSE

\* a click on "Download as PDF" or "Download as Excel"
HandleDownload(format, generation) ==
    /\ CalendarRendered
    /\ ~isDownloading
    /\ Len(downloads) < MaxDownloads
    /\ IF reportData = NullReport
       THEN UNCHANGED <<isDownloading, domLinks, savedFiles, lastToast, downloads>>
       ELSE LET done == CatchDownload(TryDownload(format, generation))
            IN  /\ isDownloading' = IsDownloadingAfter(done)
                /\ domLinks' = done.links
                /\ savedFiles' = done.files
                /\ lastToast' = done.toast
                /\ downloads' = Append(downloads, [format |-> format, threw |-> done.threw])
    /\ UNCHANGED <<activeTab, isLoading, reportData, loadError, dateRange, isCalendarOpen, refreshes,
                   lastSettled, rangeSelections, pendingEffects>>
    /\ UNCHANGED <<now, aggVars, filterVars, sumVars, readVars, pageVars>>

\* the setTimeout callback: the link is removed and its object URL revoked
CleanupLink ==
    /\ domLinks # <<>>
    /\ domLinks' = Tail(domLinks)
    /\ UNCHANGED <<activeTab, isDownloading, savedFiles, downloads>>
    /\ UNCHANGED <<now, aggVars, fetchVars, filterVars, sumVars, readVars, pageVars>>

DownloadNext ==
    \/ \E tab \in Tabs : SetActiveTab(tab)
    \/ \E format \in Formats, generation \in Generations : HandleDownload(format, generation)
    \/ CleanupLink

SpecDownload == FilterInit /\ [][DownloadNext]_vars

(***************************************************************************)
(* SalesReport: the view from its mount on, with the tabs and the filters. *)
(***************************************************************************)
\* date ranges selected in one behaviour of the view specification
MaxSelections == 1

ViewNext ==
    \/ \E open \in BOOLEAN : SetIsCalendarOpen(open)
    \/ rangeSelections < MaxSelections /\ \E d \in RangeChoices : SelectRange(d)
    \/ RunEffect
    \/ \E r \in 1..Len(refreshes), f \in Fetches : FetchResolve(r, f)
    \/ \E r \in 1..Len(refreshes), f \in Fetches : FetchReject(r, f)
    \/ \E tab \in Tabs : SetActiveTab(tab)
    \/ \E c \in {"all", "Electronics"} : SetSelectedCategory(c)
    \/ \E b \in {"all", "TechBrand"} : SetSelectedBrand(b)
    \/ \E q \in {<<>>, <<"a">>} : SetSearchQuery(q)

SpecView == ReportInit /\ [][ViewNext]_vars

(***************************************************************************)
(* SalesReport: generateSalesData.                                         *)
(***************************************************************************)
\* bills handed to generateSalesData at most
MaxBills == 2
\* line items over all those bills at most
MaxItems == 2

\* item.product when the line item has no product
NullProduct == [isNull |-> TRUE]

\* mostSellingProduct / mostProfitableProduct when there is no product
NullSummary == [isNull |-> TRUE]

\* the filter with the bounds as selected: billDate >= dateRange.from && billDate <= dateRange.to
InDateRange_AsSelected(bill, range) ==
    bill.createdAt >= range.from /\ bill.createdAt <= range.to

\* bills.filter(bill => billDate >= startOfDay(dateRange.from) && billDate <= endOfDay(dateRange.to))
InDateRange(bill, range) ==
    bill.createdAt >= startOfDay(range.from) /\ bill.createdAt <= endOfDay(range.to)

MapHas(map, id) == \E i \in 1..Len(map) : map[i].id = id

\* the else branch with the quantity validated: a negative one counts as 0
NewSummary_Validated(bill, item) ==
    LET quantity == IF item.quantity < 0 THEN 0 ELSE item.quantity
    IN  [ id            |-> item.product.id,
          name          |-> item.product.name,
          category      |-> IF item.product.category = "" THEN "Uncategorized" ELSE item.product.category,
          brand         |-> IF item.product.brand = "" THEN "Unknown" ELSE item.product.brand,
          totalQuantity |-> quantity,
          buyingPrice   |-> item.product.buyingPrice,
          sellingPrice  |-> item.productPrice,
          totalRevenue  |-> item.productPrice * quantity,
          totalProfit   |-> (item.productPrice - item.product.buyingPrice) * quantity,
          lastSoldAt    |-> bill.createdAt ]

\* the else branch: productSalesMap.set(id, {...}) on the first sight of a product
NewSummary(bill, item) ==
    [ id            |-> item.product.id,
      name          |-> item.product.name,
      category      |-> IF item.product.category = "" THEN "Uncategorized" ELSE item.product.category,
      brand         |-> IF item.product.brand = "" THEN "Unknown" ELSE item.product.brand,
      totalQuantity |-> item.quantity,
      buyingPrice   |-> item.product.buyingPrice,
      sellingPrice  |-> item.productPrice,
      totalRevenue  |-> item.productPrice * item.quantity,
      totalProfit   |-> (item.productPrice - item.product.buyingPrice) * item.quantity,
      lastSoldAt    |-> bill.createdAt ]

\* the then branch with = where the code has +=
Overwrite(existing, item) ==
    [ existing EXCEPT
        !.totalQuantity = item.quantity,
        !.totalRevenue  = item.productPrice * item.quantity,
        !.totalProfit   = (item.productPrice - item.product.buyingPrice) * item.quantity ]

\* the then branch: the product is in the map already
Accumulate(existing, item) ==
    [ existing EXCEPT
        !.totalQuantity = @ + item.quantity,
        !.totalRevenue  = @ + item.productPrice * item.quantity,
        !.totalProfit   = @ + (item.productPrice - item.product.buyingPrice) * item.quantity ]

\* the callback without its first line: an item without product is entered under
\* the id "undefined"
AddItem_NoSkip(map, bill, item) ==
    LET it == IF item.product = NullProduct
              THEN [item EXCEPT !.product = [id |-> <<>>, name |-> <<>>, category |-> "",
                                             brand |-> "", buyingPrice |-> 0]]
              ELSE item
    IN  IF MapHas(map, it.product.id)
        THEN [i \in 1..Len(map) |->
                IF map[i].id = it.product.id THEN Accumulate(map[i], it) ELSE map[i]]
        ELSE Append(map, NewSummary(bill, it))

\* the callback of bill.items.forEach
AddItem(map, bill, item) ==
    IF item.product = NullProduct THEN map
    ELSE IF MapHas(map, item.product.id)
         THEN [i \in 1..Len(map) |->
                 IF map[i].id = item.product.id THEN Accumulate(map[i], item) ELSE map[i]]
         ELSE Append(map, NewSummary(bill, item))

RECURSIVE AddItems(_, _, _)
AddItems(map, bill, items) ==
    IF items = <<>> THEN map
    ELSE AddItems(AddItem(map, bill, Head(items)), bill, Tail(items))

\* filteredBills.forEach: a bill whose items is no array is passed over
RECURSIVE FoldBills(_, _)
FoldBills(map, filtered) ==
    IF filtered = <<>> THEN map
    ELSE FoldBills(IF Head(filtered).hasItems
                   THEN AddItems(map, Head(filtered), Head(filtered).items)
                   ELSE map,
                   Tail(filtered))

\* Array.prototype.sort with (a, b) => b[field] - a[field]: stable, greatest first
RECURSIVE InsertDesc(_, _, _)
InsertDesc(sorted, x, field) ==
    IF sorted = <<>> THEN <<x>>
    ELSE IF x[field] > Head(sorted)[field]
         THEN <<x>> \o sorted
         ELSE <<Head(sorted)>> \o InsertDesc(Tail(sorted), x, field)

RECURSIVE SortDesc(_, _)
SortDesc(list, field) ==
    IF list = <<>> THEN <<>>
    ELSE InsertDesc(SortDesc(SubSeq(list, 1, Len(list) - 1), field), list[Len(list)], field)

\* the sort with (a, b) => a[field] - b[field], then [0]
Smallest(list, field) ==
    IF Len(list) > 0 THEN SortDesc(list, field)[Len(list)] ELSE NullSummary

\* the sort with a comparator that moves a later equal element ahead, then [0]
Greatest_LastOfTies(list, field) ==
    IF Len(list) > 0
    THEN LET top == SortDesc(list, field)[1][field]
             k   == CHOOSE i \in 1..Len(list) :
                       /\ list[i][field] = top
                       /\ \A j \in 1..Len(list) : list[j][field] = top => j <= i
         IN  list[k]
    ELSE NullSummary

\* list.length > 0 ? [...list].sort((a, b) => b[field] - a[field])[0] : null
Greatest(list, field) ==
    IF Len(list) > 0 THEN SortDesc(list, field)[1] ELSE NullSummary

\* Math.random() is called 30 + 12 times in one generateSampleSalesData(); a
\* stream holds the values it returns, in thousandths
RandomStreams == { [i \in 1..42 |-> u] : u \in {0, 999} }

\* the two arrays of generateSampleSalesData() that are drawn at random, each as
\* the sequence of its sales amounts (entry i is labelled `Day i`, `Week i`); its
\* other fields are literals, and those generateSalesData overwrites are left out
generateSampleSalesData(random) ==
    [ dailySales  |-> [i \in 1..30 |-> ((random[i] * 1000) \div 1000) + 200],
      weeklySales |-> [i \in 1..12 |-> ((random[30 + i] * 5000) \div 1000) + 1000] ]

generateSalesData(billList, range, random) ==
    LET filteredBills       == SelectSeq(billList, LAMBDA bill : InDateRange(bill, range))
        productSalesDetails == FoldBills(<<>>, filteredBills)
        sample              == generateSampleSalesData(random)
    IN  [ called                |-> TRUE,
          dailySales            |-> sample.dailySales,
          weeklySales           |-> sample.weeklySales,
          productSalesDetails   |-> productSalesDetails,
          mostSellingProduct    |-> Greatest(productSalesDetails, "totalQuantity"),
          mostProfitableProduct |-> Greatest(productSalesDetails, "totalProfit"),
          recentTransactions    |-> filteredBills ]

\* the products line items refer to
Product(id, name, category, brand, buyingPrice) ==
    [id |-> id, name |-> name, category |-> category, brand |-> brand, buyingPrice |-> buyingPrice]

P1 == Product(<<"1">>, <<"A", "b">>, "Electronics", "TechBrand", 30)

P2 == Product(<<"a", "1">>, <<"b", "b">>, "", "", 0)

\* the line items a bill may carry
ItemChoices ==
    { [product |-> P1, productPrice |-> 50, quantity |-> 3],
      [product |-> P1, productPrice |-> 50, quantity |-> 2],
      [product |-> P2, productPrice |-> 20, quantity |-> 5],
      [product |-> P2, productPrice |-> 100, quantity |-> 1],
      [product |-> NullProduct, productPrice |-> 10, quantity |-> 7] }

\* when a bill may have been created: the last instant of the day before the week
\* that ended yesterday, the first and the last instant of that week, and the
\* first instant of the day after it
BillTimes ==
    { endOfDay(subDays(now, 8)), startOfDay(subDays(now, 7)),
      endOfDay(subDays(now, 1)), startOfDay(now) }

TotalItems(billList) ==
    LET RECURSIVE Count(_)
        Count(k) == IF k = 0 THEN 0 ELSE Len(billList[k].items) + Count(k - 1)
    IN  Count(Len(billList))

SumInit ==
    /\ HistoryIdle
    /\ LoginIdle
    /\ now = MakeTs(2026, 11, 6, 1)
    /\ AggIdle
    /\ SumIdle
    /\ ReadIdle
    /\ isLoading = FALSE
    /\ reportData \in LoadedReports
    /\ reportData.productSalesDetails = <<>>
    /\ loadError = null
    /\ dateRange = [from |-> startOfDay(subDays(now, 7)), to |-> startOfDay(subDays(now, 1))]
    /\ selectedCategory = "all"
    /\ selectedBrand = "all"
    /\ searchQuery = <<>>
    /\ isCalendarOpen = FALSE
    /\ lastToast = NoToast
    /\ pendingEffects = <<>>
    /\ refreshes = <<>>
    /\ lastSettled = 0
    /\ rangeSelections = 0
    /\ DownloadIdle

\* a bill joins the list that will be handed over, with an items array or without
NewBill(t, withItems) ==
    /\ ~generated.called
    /\ Len(bills) < MaxBills
    /\ bills' = Append(bills, [createdAt |-> t, hasItems |-> withItems, items |-> <<>>])
    /\ UNCHANGED <<generated, now, aggVars, fetchVars, filterVars, downloadVars, readVars, pageVars>>

\* a line item joins the last bill
NewItem(item) ==
    /\ ~generated.called
    /\ bills # <<>>
    /\ bills[Len(bills)].hasItems
    /\ TotalItems(bills) < MaxItems
    /\ bills' = [bills EXCEPT ![Len(bills)].items = Append(@, item)]
    /\ UNCHANGED <<generated, now, aggVars, fetchVars, filterVars, downloadVars, readVars, pageVars>>

\* generateSalesData(bills) is called, for the first time or again
Generate ==
    /\ \E random \in RandomStreams : generated' = generateSalesData(bills, dateRange, random)
    /\ UNCHANGED <<bills, now, aggVars, fetchVars, filterVars, downloadVars, readVars, pageVars>>

SumNext ==
    \/ \E t \in BillTimes, withItems \in BOOLEAN : NewBill(t, withItems)
    \/ \E item \in ItemChoices : NewItem(item)
    \/ Generate

SpecSummary == SumInit /\ [][SumNext]_vars

(***************************************************************************)
(* services/dashboardService.ts: the read operations against the backend.  *)
(* A call sends a query, awaits its reply { data, error } and goes on or   *)
(* throws.  Instants are taken in UTC, so that toISOString() and the local *)
(* calendar agree.                                                         *)
(***************************************************************************)
\* rows of "products" at most
MaxProductRows == 2
\* products sold, over the rows of "bill_items"
MaxSoldProducts == 6

\* return value: the promise fulfils with it
Fulfilled(value) == [state |-> "fulfilled", value |-> value, error |-> NoError]

\* a throw that wraps the failure in an error of its own
Throw_Wrapped(error) ==
    [state |-> "rejected", value |-> NoValue, error |-> [message |-> "Failed to load data"]]

\* if (error) throw error: the promise rejects with the backend's error value
Throw(error) == [state |-> "rejected", value |-> NoValue, error |-> error]

\* how the backend orders the status strings ("cancelled" < "completed" < "pending")
StatusRank(status) ==
    CASE status = "cancelled" -> 1
      [] status = "completed" -> 2
      [] OTHER                -> 3

\* .from("bills").select("total, created_at").gte("status", "completed")
StatsBillsQuery(table) ==
    SelectSeq(table, LAMBDA b : StatusRank(b.status) >= StatusRank("completed"))

\* rows.reduce((sum, bill) => sum + Number(bill.total || 0), 0)
RECURSIVE ReduceTotals(_)
ReduceTotals(rows) ==
    IF rows = <<>> THEN 0 ELSE ReduceTotals(SubSeq(rows, 1, Len(rows) - 1)) + rows[Len(rows)].total

\* allBills.filter(bill => bill.created_at && bill.created_at.startsWith(todayISO))
TodayBills(rows, today) == SelectSeq(rows, LAMBDA b : DayOf(b.created_at) = DayOf(today))

\* the low-stock test without `stock > 0`
IsLowStock_NoLowerBound(p) ==
    /\ p.stockIsNumber
    /\ p.thresholdIsNumber
    /\ p.stock <= p.low_stock_threshold

\* typeof stock === "number" && typeof low_stock_threshold === "number" &&
\* stock <= low_stock_threshold && stock > 0
IsLowStock(p) ==
    /\ p.stockIsNumber
    /\ p.thresholdIsNumber
    /\ p.stock <= p.low_stock_threshold
    /\ p.stock > 0

\* typeof stock === "number" && stock === 0
IsOutOfStock(p) == p.stockIsNumber /\ p.stock = 0

\* item.quantity || 0
QuantityOrZero(item) == IF item.quantityIsNull THEN 0 ELSE item.quantity

SoldHas(sold, id) == \E i \in 1..Len(sold) : sold[i].id = id

\* the callback of billItems.forEach: skip a row without product_id, create the
\* product's entry on first sight, add the quantity
CountItem(sold, item) ==
    IF item.product_id.isNull THEN sold
    ELSE LET known == IF SoldHas(sold, item.product_id) THEN sold
                      ELSE Append(sold, [id |-> item.product_id, name |-> item.product_name,
                                         soldCount |-> 0])
         IN  [i \in 1..Len(known) |->
                 IF known[i].id = item.product_id
                 THEN [known[i] EXCEPT !.soldCount = @ + QuantityOrZero(item)]
                 ELSE known[i]]

RECURSIVE CountItems(_, _)
CountItems(sold, items) ==
    IF items = <<>> THEN sold ELSE CountItems(CountItem(sold, Head(items)), Tail(items))

RECURSIVE SortById(_)
SortById(s) ==
    IF s = <<>> THEN <<>>
    ELSE LET i == CHOOSE j \in 1..Len(s) : \A l \in 1..Len(s) : s[j].id.n <= s[l].id.n
         IN  <<s[i]>> \o SortById(SubSeq(s, 1, i - 1) \o SubSeq(s, i + 1, Len(s)))

\* Object.entries(productSales): the ids that are canonical integers in ascending
\* order, then the other ids in insertion order
SoldEntries(sold) ==
    SortById(SelectSeq(sold, LAMBDA e : e.id.int)) \o SelectSeq(sold, LAMBDA e : ~e.id.int)

\* .slice(0, 5)
TopCount == 5

Slice(list, n) == SubSeq(list, 1, IF Len(list) < n THEN Len(list) ELSE n)

\* the chain with the comparator (a, b) => a[1].soldCount - b[1].soldCount
TopSellingProducts_Ascending(items) ==
    LET top == Slice(Reverse(SortDesc(SoldEntries(CountItems(<<>>, items)), "soldCount")), TopCount)
    IN  [i \in 1..Len(top) |->
            [product |-> [id |-> top[i].id, name |-> top[i].name], soldCount |-> top[i].soldCount]]

\* Object.entries(productSales).sort((a, b) => b[1].soldCount - a[1].soldCount)
\*     .slice(0, 5).map(([id, d]) => ({ product: { id, name: d.name }, soldCount: d.soldCount }))
TopSellingProducts(items) ==
    LET top == Slice(SortDesc(SoldEntries(CountItems(<<>>, items)), "soldCount"), TopCount)
    IN  [i \in 1..Len(top) |->
            [product |-> [id |-> top[i].id, name |-> top[i].name], soldCount |-> top[i].soldCount]]

\* the query a read operation sends first
FirstQuery(op) == "bills"

\* getDashboardStats resumed with the rows of the query it awaits
getDashboardStats(call) ==
    CASE call.pc = "bills" ->
            LET allBills == StatsBillsQuery(billsTable)
            IN  [call EXCEPT !.pc = "products",
                             !.held.totalSales = ReduceTotals(allBills),
                             !.held.todaySales = ReduceTotals(TodayBills(allBills, now))]
      [] call.pc = "products" ->
            [call EXCEPT !.pc = "bill_items",
                         !.held.lowStockItems =
                             Len(SelectSeq(productsTable, LAMBDA p : IsLowStock(p))),
                         !.held.outOfStockItems =
                             Len(SelectSeq(productsTable, LAMBDA p : IsOutOfStock(p)))]
      [] OTHER ->
            [call EXCEPT !.pc = "done",
                         !.outcome = Fulfilled(
                             [ totalSales         |-> call.held.totalSales,
                               todaySales         |-> call.held.todaySales,
                               lowStockItems      |-> call.held.lowStockItems,
                               outOfStockItems    |-> call.held.outOfStockItems,
                               topSellingProducts |-> TopSellingProducts(billItemsTable) ])]

\* the reply to the query sent last is entered in the log
Answered(log, error) == [log EXCEPT ![Len(log)].answered = TRUE, ![Len(log)].error = error]

Query(table) == [table |-> table, answered |-> FALSE, error |-> NoError]

ReadOps == {"daily", "weekly", "monthly", "yearly", "stats"}

\* a read operation is called and runs up to its first await
CallRead(op) ==
    /\ readCall.pc \in {"idle", "done"}
    /\ readCall' = [op |-> op, pc |-> FirstQuery(op), held |-> NoHeld, outcome |-> Pending]
    /\ queryLog' = << Query(FirstQuery(op)) >>
    /\ UNCHANGED <<productsTable, billItemsTable>>
    /\ UNCHANGED <<now, aggVars, fetchVars, filterVars, sumVars, downloadVars, pageVars>>

\* the backend answers the query of getDailySalesData with rows: the rest of the
\* function runs and it returns
DailyReturns ==
    /\ readCall.op = "daily"
    /\ readCall.pc = "bills"
    /\ readCall' = [readCall EXCEPT !.pc = "done",
                        !.outcome = Fulfilled([points |-> getDailySalesData(now, billsTable)])]
    /\ queryLog' = Answered(queryLog, NoError)
    /\ UNCHANGED <<productsTable, billItemsTable>>
    /\ UNCHANGED <<now, aggVars, fetchVars, filterVars, sumVars, downloadVars, pageVars>>

WeeklyReturns ==
    /\ readCall.op = "weekly"
    /\ readCall.pc = "bills"
    /\ readCall' = [readCall EXCEPT !.pc = "done",
                        !.outcome = Fulfilled([points |-> getWeeklySalesData(now, billsTable)])]
    /\ queryLog' = Answered(queryLog, NoError)
    /\ UNCHANGED <<productsTable, billItemsTable>>
    /\ UNCHANGED <<now, aggVars, fetchVars, filterVars, sumVars, downloadVars, pageVars>>

MonthlyReturns ==
    /\ readCall.op = "monthly"
    /\ readCall.pc = "bills"
    /\ readCall' = [readCall EXCEPT !.pc = "done",
                        !.outcome = Fulfilled([points |-> getMonthlySalesData(now, billsTable)])]
    /\ queryLog' = Answered(queryLog, NoError)
    /\ UNCHANGED <<productsTable, billItemsTable>>
    /\ UNCHANGED <<now, aggVars, fetchVars, filterVars, sumVars, downloadVars, pageVars>>

YearlyReturns ==
    /\ readCall.op = "yearly"
    /\ readCall.pc = "bills"
    /\ readCall' = [readCall EXCEPT !.pc = "done",
                        !.outcome = Fulfilled([points |-> getYearlySalesData(now, billsTable)])]
    /\ queryLog' = Answered(queryLog, NoError)
    /\ UNCHANGED <<productsTable, billItemsTable>>
    /\ UNCHANGED <<now, aggVars, fetchVars, filterVars, sumVars, downloadVars, pageVars>>

\* the backend answers the awaited query of getDashboardStats with rows: it goes
\* on to its next query or to its return
StatsReturns ==
    /\ readCall.op = "stats"
    /\ readCall.pc \in {"bills", "products", "bill_items"}
    /\ readCall' = getDashboardStats(readCall)
    /\ queryLog' = IF readCall.pc = "bill_items"
                   THEN Answered(queryLog, NoError)
                   ELSE Append(Answered(queryLog, NoError),
                               Query(IF readCall.pc = "bills" THEN "products" ELSE "bill_items"))
    /\ UNCHANGED <<productsTable, billItemsTable>>
    /\ UNCHANGED <<now, aggVars, fetchVars, filterVars, sumVars, downloadVars, pageVars>>

\* the backend answers the awaited query with an error
QueryFails(error) ==
    /\ readCall.pc \notin {"idle", "done"}
    /\ readCall' = [readCall EXCEPT !.pc = "done", !.outcome = Throw(error)]
    /\ queryLog' = Answered(queryLog, error)
    /\ UNCHANGED <<productsTable, billItemsTable>>
    /\ UNCHANGED <<now, aggVars, fetchVars, filterVars, sumVars, downloadVars, pageVars>>

(***************************************************************************)
(* Inputs of the read specification: what the backend holds.               *)
(***************************************************************************)
BackendErrors == { [message |-> "connection refused"], [message |-> "permission denied"] }

RECURSIVE SeqsUpTo(_, _)
SeqsUpTo(S, n) ==
    IF n = 0 THEN { <<>> }
    ELSE SeqsUpTo(S, n - 1) \cup { Append(q, x) : q \in SeqsUpTo(S, n - 1), x \in S }

\* rows of "bills": sold today, still pending, sold last year, cancelled
ReadBillRows ==
    { [created_at |-> now, total |-> 100, status |-> "completed"],
      [created_at |-> now, total |-> 250, status |-> "pending"],
      [created_at |-> subDays(now, 400), total |-> 100, status |-> "completed"],
      [created_at |-> now, total |-> 70, status |-> "cancelled"],
      [created_at |-> now, total |-> -40, status |-> "completed"] }

\* rows of "products": sold out, low, well stocked, low without a threshold, no stock
\* figure
ProductRows ==
    { [stock |-> 0,  stockIsNumber |-> TRUE,  low_stock_threshold |-> 5, thresholdIsNumber |-> TRUE],
      [stock |-> 3,  stockIsNumber |-> TRUE,  low_stock_threshold |-> 5, thresholdIsNumber |-> TRUE],
      [stock |-> 10, stockIsNumber |-> TRUE,  low_stock_threshold |-> 5, thresholdIsNumber |-> TRUE],
      [stock |-> 3,  stockIsNumber |-> TRUE,  low_stock_threshold |-> 0, thresholdIsNumber |-> FALSE],
      [stock |-> 0,  stockIsNumber |-> FALSE, low_stock_threshold |-> 5, thresholdIsNumber |-> TRUE],
      [stock |-> -2, stockIsNumber |-> TRUE,  low_stock_threshold |-> 5, thresholdIsNumber |-> TRUE] }

\* product ids: "1", "2", ... are canonical integers, the others are not
ProductId(n) == [isNull |-> FALSE, int |-> n % 2 = 1, n |-> n]

NullId == [isNull |-> TRUE, int |-> FALSE, n |-> 0]

ItemRow(n, quantity) ==
    [product_id |-> ProductId(n), product_name |-> n, quantity |-> quantity, quantityIsNull |-> FALSE]

\* rows of "bill_items": one row for each of the products k, k-1, .. 1 sold, of
\* one or two pieces, and then nothing, a second row of product 1, a row without
\* product_id or a row without quantity
ItemTables ==
    { [i \in 1..k |-> ItemRow(k + 1 - i, q[i])] \o extra :
        k \in 0..MaxSoldProducts, q \in [1..MaxSoldProducts -> {1, 2}],
        extra \in { <<>>,
                    << ItemRow(1, 2) >>,
                    << [ItemRow(2, 4) EXCEPT !.product_id = NullId] >>,
                    << [ItemRow(2, 0) EXCEPT !.quantityIsNull = TRUE] >> } }

\* one of the three tables varies, the other two hold a fixed row or none
Backends ==
    { <<b, <<>>, <<>>>> : b \in SeqsUpTo(ReadBillRows, MaxRows) }
    \cup { << <<>>, p, << ItemRow(1, 1) >> >> : p \in SeqsUpTo(ProductRows, MaxProductRows) }
    \cup { << << [created_at |-> now, total |-> 100, status |-> "completed"] >>, <<>>, t >> :
             t \in ItemTables }

\* the bills the report is summarised from: one bill of three days ago with up to
\* MaxItems line items
\* a line sold below the cost of its product, and a line of negative quantity
OddItems ==
    { [product |-> P1, productPrice |-> 20, quantity |-> 1],
      [product |-> P2, productPrice |-> 20, quantity |-> -2] }

\* a line of P2 with the quantity and the profit of the first line of P1
TiedItem == [product |-> P2, productPrice |-> 20, quantity |-> 3]

BillLists ==
    { << [createdAt |-> subDays(now, 3), hasItems |-> TRUE, items |-> items] >> :
        items \in SeqsUpTo(ItemChoices \cup OddItems \cup {TiedItem}, MaxItems) }

\* the backend varies and there is no bill to summarise, or the bills vary over a
\* fixed backend
ReadInputs ==
    { <<backend[1], backend[2], backend[3], <<>>>> : backend \in Backends }
    \cup { << << [created_at |-> now, total |-> 100, status |-> "completed"] >>, <<>>,
               << ItemRow(1, 1), [ItemRow(2, 4) EXCEPT !.product_id = NullId] >>, list >> :
             list \in BillLists }

ReadInit ==
    /\ HistoryIdle
    /\ LoginIdle
    /\ now = MakeTs(2026, 11, 6, 1)
    /\ \E input \in ReadInputs :
          /\ billsTable = input[1]
          /\ productsTable = input[2]
          /\ billItemsTable = input[3]
          /\ bills = input[4]
    /\ salesSeries = [kind |-> "none", rows |-> <<>>, points |-> <<>>]
    /\ readCall = [op |-> "none", pc |-> "idle", held |-> NoHeld, outcome |-> Pending]
    /\ queryLog = <<>>
    /\ generated = [called |-> FALSE]
    /\ ViewMounted

ReadNext ==
    \/ Generate
    \/ \E op \in ReadOps : CallRead(op)
    \/ DailyReturns
    \/ WeeklyReturns
    \/ MonthlyReturns
    \/ YearlyReturns
    \/ StatsReturns
    \/ \E error \in BackendErrors : QueryFails(error)

SpecReads == ReadInit /\ [][ReadNext]_vars

(***************************************************************************)
(* pages/BillHistory.tsx.  A handler is a closure of the render in which   *)
(* it was created: after an await it still reads the state of that render. *)
(***************************************************************************)
\* calls of handleDeleteBill in one behaviour
MaxDeletions == 2

BillIds == {"b1", "b2"}

\* selectedBill?.id === billId, with the selectedBill of the closure
ClosureSelected(call) == call.selectedBill = call.billId

\* the page is open, the query has loaded the bills the backend holds
HistoryInit ==
    /\ now = MakeTs(2026, 11, 6, 1)
    /\ AggIdle
    /\ SumIdle
    /\ ReadIdle
    /\ ViewMounted
    /\ LoginIdle
    /\ selectedBill = NoBill
    /\ isReceiptOpen = FALSE
    /\ storedBills = BillIds
    /\ billsData = storedBills
    /\ deletions = <<>>
    /\ historyToast = NoToast

\* onSelectBill of a listed bill
handleSelectBill(bill) ==
    /\ bill \in billsData
    /\ selectedBill' = bill
    /\ isReceiptOpen' = TRUE
    /\ UNCHANGED <<billsData, storedBills, deletions, historyToast>>
    /\ UNCHANGED <<now, aggVars, fetchVars, filterVars, sumVars, downloadVars, readVars, loginVars>>

\* onClose of the receipt
CloseReceipt ==
    /\ isReceiptOpen
    /\ isReceiptOpen' = FALSE
    /\ UNCHANGED <<selectedBill, billsData, storedBills, deletions, historyToast>>
    /\ UNCHANGED <<now, aggVars, fetchVars, filterVars, sumVars, downloadVars, readVars, loginVars>>

\* onDeleteBill of a listed bill: handleDeleteBill runs up to `await deleteBill`
handleDeleteBill(billId) ==
    /\ billId \in billsData
    /\ Len(deletions) < MaxDeletions
    /\ deletions' = Append(deletions,
          [billId |-> billId, selectedBill |-> selectedBill, pc |-> "deleteBill"])
    /\ UNCHANGED <<selectedBill, isReceiptOpen, billsData, storedBills, historyToast>>
    /\ UNCHANGED <<now, aggVars, fetchVars, filterVars, sumVars, downloadVars, readVars, loginVars>>

\* deleteBill resolves: the backend holds the bill no more, and the call goes on
\* to `await queryClient.invalidateQueries`
DeleteBillResolves(d) ==
    /\ deletions[d].pc = "deleteBill"
    /\ storedBills' = storedBills \ {deletions[d].billId}
    /\ deletions' = [deletions EXCEPT ![d].pc = "invalidateQueries"]
    /\ UNCHANGED <<selectedBill, isReceiptOpen, billsData, historyToast>>
    /\ UNCHANGED <<now, aggVars, fetchVars, filterVars, sumVars, downloadVars, readVars, loginVars>>

\* deleteBill rejects: the catch block
DeleteBillRejects(d) ==
    /\ deletions[d].pc = "deleteBill"
    /\ deletions' = [deletions EXCEPT ![d].pc = "failed"]
    /\ historyToast' = [title |-> "Delete failed", variant |-> "destructive"]
    /\ UNCHANGED <<selectedBill, isReceiptOpen, billsData, storedBills>>
    /\ UNCHANGED <<now, aggVars, fetchVars, filterVars, sumVars, downloadVars, readVars, loginVars>>

\* invalidateQueries resolves with the bills refetched; the call clears the
\* selection if the bill was the selected one of its closure, and shows the toast
InvalidateResolves(d) ==
    /\ deletions[d].pc = "invalidateQueries"
    /\ billsData' = storedBills
    /\ IF ClosureSelected(deletions[d])
       THEN selectedBill' = NoBill /\ isReceiptOpen' = FALSE
       ELSE UNCHANGED <<selectedBill, isReceiptOpen>>
    /\ historyToast' = [title |-> "Bill deleted", variant |-> "default"]
    /\ deletions' = [deletions EXCEPT ![d].pc = "done"]
    /\ UNCHANGED storedBills
    /\ UNCHANGED <<now, aggVars, fetchVars, filterVars, sumVars, downloadVars, readVars, loginVars>>

HistoryNext ==
    \/ \E bill \in BillIds : handleSelectBill(bill)
    \/ CloseReceipt
    \/ \E billId \in BillIds : handleDeleteBill(billId)
    \/ \E d \in 1..Len(deletions) : DeleteBillResolves(d)
    \/ \E d \in 1..Len(deletions) : DeleteBillRejects(d)
    \/ \E d \in 1..Len(deletions) : InvalidateResolves(d)

SpecHistory == HistoryInit /\ [][HistoryNext]_vars

(***************************************************************************)
(* pages/Login.tsx.  login comes from the AuthContext: it resolves to      *)
(* whether the credentials were accepted, or rejects.                      *)
(***************************************************************************)
\* calls of handleLogin in one behaviour
MaxLogins == 3

Emails == {"", "owner@shop"}

Passwords == {"", "secret"}

\* the page is open, nobody is logged in
LoginInit ==
    /\ now = MakeTs(2026, 11, 6, 1)
    /\ AggIdle
    /\ SumIdle
    /\ ReadIdle
    /\ ViewMounted
    /\ HistoryIdle
    /\ LoginIdle

\* onChange of the email input
setEmail(value) ==
    /\ ~isLoggedIn
    /\ value # email
    /\ email' = value
    /\ UNCHANGED <<password, loginIsLoading, isLoggedIn, loginCalls, loginToast>>
    /\ UNCHANGED <<now, aggVars, fetchVars, filterVars, sumVars, downloadVars, readVars, historyVars>>

\* onChange of the password input
setPassword(value) ==
    /\ ~isLoggedIn
    /\ value # password
    /\ password' = value
    /\ UNCHANGED <<email, loginIsLoading, isLoggedIn, loginCalls, loginToast>>
    /\ UNCHANGED <<now, aggVars, fetchVars, filterVars, sumVars, downloadVars, readVars, historyVars>>

\* (!email || !password) with email only
HasCredentials_EmailOnly(e, p) == e # ""

\* the negation of (!email || !password)
HasCredentials(e, p) == e # "" /\ p # ""

\* a click on the button, which is disabled while isLoading: handleLogin runs to
\* its early return, or up to `await login(email, password)`
handleLogin ==
    /\ ~isLoggedIn
    /\ ~loginIsLoading
    /\ Len(loginCalls) < MaxLogins
    /\ IF HasCredentials(email, password)
       THEN /\ loginIsLoading' = TRUE
            /\ loginCalls' = Append(loginCalls,
                  [email |-> email, password |-> password, invoked |-> TRUE, state |-> "awaiting"])
            /\ UNCHANGED loginToast
       ELSE /\ loginIsLoading' = FALSE
            /\ loginCalls' = Append(loginCalls,
                  [email |-> email, password |-> password, invoked |-> FALSE, state |-> "returned"])
            /\ loginToast' = [title |-> "Login Failed", variant |-> "destructive"]
    /\ UNCHANGED <<email, password, isLoggedIn>>
    /\ UNCHANGED <<now, aggVars, fetchVars, filterVars, sumVars, downloadVars, readVars, historyVars>>

\* login resolves, to true or to false: the try block ends, then finally
LoginResolves(c, success) ==
    /\ loginCalls[c].state = "awaiting"
    /\ loginCalls' = [loginCalls EXCEPT ![c].state = "resolved"]
    /\ isLoggedIn' = success
    /\ loginIsLoading' = FALSE
    /\ UNCHANGED <<email, password, loginToast>>
    /\ UNCHANGED <<now, aggVars, fetchVars, filterVars, sumVars, downloadVars, readVars, historyVars>>

\* login rejects: the catch block, then finally
LoginRejects(c) ==
    /\ loginCalls[c].state = "awaiting"
    /\ loginCalls' = [loginCalls EXCEPT ![c].state = "rejected"]
    /\ loginToast' = [title |-> "Login Error", variant |-> "destructive"]
    /\ loginIsLoading' = FALSE
    /\ UNCHANGED <<email, password, isLoggedIn>>
    /\ UNCHANGED <<now, aggVars, fetchVars, filterVars, sumVars, downloadVars, readVars, historyVars>>

LoginNext ==
    \/ \E value \in Emails : setEmail(value)
    \/ \E value \in Passwords : setPassword(value)
    \/ handleLogin
    \/ \E c \in 1..Len(loginCalls), success \in BOOLEAN : LoginResolves(c, success)
    \/ \E c \in 1..Len(loginCalls) : LoginRejects(c)

SpecLogin == LoginInit /\ [][LoginNext]_vars

(***************************************************************************)
(* Properties of the aggregators.                                          *)
(***************************************************************************)
RECURSIVE SumSales(_)
SumSales(points) == IF points = <<>> THEN 0 ELSE Head(points).sales + SumSales(Tail(points))

RECURSIVE SumTotals(_)
SumTotals(rows) == IF rows = <<>> THEN 0 ELSE Head(rows).total + SumTotals(Tail(rows))

\* the labels of the requested window, most recent period first
WindowLabels(kind) ==
    CASE kind = "daily"   -> [i \in 1..DailyWindow   |-> FormatMMMdd(subDays(now, i - 1))]
      [] kind = "weekly"  -> [i \in 1..WeeklyWindow  |-> FormatWeek(subWeeks(now, i - 1))]
      [] kind = "monthly" -> [i \in 1..MonthlyWindow |-> FormatMMM(subMonths(now, i - 1))]
      [] kind = "yearly"  -> [i \in 1..YearlyWindow  |-> FormatYYYY(subYears(now, i - 1))]
      [] OTHER            -> <<>>

\* the label an aggregator files a row under
RowLabel(kind, ts) ==
    CASE kind = "daily"   -> FormatMMMdd(ts)
      [] kind = "weekly"  -> FormatWeek(startOfWeek(ts))
      [] kind = "monthly" -> FormatMMM(ts)
      [] OTHER            -> FormatYYYY(ts)

Min(a, b) == IF a <= b THEN a ELSE b

\* the first instant of the window: the earlier of "N periods before now" and the
\* start of the oldest seeded period
WindowStart(kind) ==
    CASE kind = "daily"   -> Min(subDays(now, 30), DayOf(subDays(now, 29)) * SlotsPerDay)
      [] kind = "weekly"  -> Min(subWeeks(now, 12), startOfWeek(subWeeks(now, 11)))
      [] kind = "monthly" -> Min(subMonths(now, 12),
                                 MakeTs(DateOf(subMonths(now, 11)).y, DateOf(subMonths(now, 11)).m, 1, 0))
      [] OTHER            -> Min(subYears(now, 5), startOfYear(subYears(now, 4)))

InWindow(kind, ts) == ts >= WindowStart(kind) /\ ts <= now

PositionOf(seq, x) == CHOOSE i \in 1..Len(seq) : seq[i] = x

InSeq(seq, x) == \E i \in 1..Len(seq) : seq[i] = x

\* C1: whatever rows the backend returns, the daily, weekly, monthly and yearly
\* aggregators return exactly 30, 12, 12 and 5 entries, and all sums are zero when
\* no row was returned.
C1_EntryCounts ==
    salesSeries.kind # "none" =>
        /\ Len(salesSeries.points) =
              (CASE salesSeries.kind = "daily"   -> 30
                 [] salesSeries.kind = "weekly"  -> 12
                 [] salesSeries.kind = "monthly" -> 12
                 [] OTHER                        -> 5)
        /\ salesSeries.rows = <<>> =>
              \A i \in 1..Len(salesSeries.points) : salesSeries.points[i].sales = 0

\* C2: every aggregator returns its periods oldest first, the period that contains
\* today last.
C2_OldestFirst ==
    salesSeries.kind # "none" =>
        LET w == WindowLabels(salesSeries.kind)
            p == salesSeries.points
        IN  /\ p # <<>>
            /\ p[Len(p)].label = w[1]
            /\ \A i, j \in 1..Len(p) :
                  (i < j /\ InSeq(w, p[i].label) /\ InSeq(w, p[j].label))
                      => PositionOf(w, p[i].label) > PositionOf(w, p[j].label)

\* C3: the sums of the returned buckets add up to the totals of exactly the rows
\* dated inside the window; a row dated outside it contributes to no bucket.
C3_WindowSum ==
    salesSeries.kind # "none" =>
        SumSales(salesSeries.points) =
            SumTotals(SelectSeq(salesSeries.rows,
                                LAMBDA r : InWindow(salesSeries.kind, r.created_at)))

ShowsRefresh(data, r) ==
    /\ data # NullReport
    /\ \A fld \in DOMAIN data : data[fld][1] = r

\* C7: a refresh one of whose fetches fails applies nothing: the step in which it
\* fails leaves reportData as it is and sets loadError; reportData changes only in
\* the step that completes all five fetches of one refresh, and then to the
\* results of that refresh as a whole.
C7_FailureAppliesNothing ==
    [][ /\ \A r \in 1..Len(refreshes) :
              (refreshes[r].state = "inflight" /\ refreshes'[r].state = "failed")
                  => (reportData' = reportData /\ loadError' # null)
        /\ reportData' # reportData =>
              \E r \in 1..Len(refreshes) :
                 /\ refreshes[r].state = "inflight"
                 /\ refreshes'[r].state = "done"
                 /\ refreshes'[r].resolved = Fetches
                 /\ ShowsRefresh(reportData', r) ]_vars

\* a refresh failed after some of its fetches had resolved; the report of an
\* earlier refresh is still the one held, and the error is set
C7_Witness ==
    /\ lastSettled > 1
    /\ refreshes[lastSettled].state = "failed"
    /\ refreshes[lastSettled].dropped
    /\ \E r \in 1..Len(refreshes) : r # lastSettled /\ ShowsRefresh(reportData, r)
    /\ loadError = FetchErrorMessage

SameLetter(c, d) == c = d \/ {c, d} = {"a", "A"}

\* text occurs in str at some position, letter case ignored
OccursIn(text, str) ==
    \E start \in 1..(Len(str) + 1) :
        \A j \in 1..Len(text) :
            start + j - 1 <= Len(str) /\ SameLetter(str[start + j - 1], text[j])

\* C10: the rows shown are exactly the products of reportData.productSalesDetails,
\* in their order, whose category is the selected one (or "all" is selected),
\* whose brand is the selected one (or "all"), and whose name or id contains the
\* search text, letter case ignored (or the text is empty); none when reportData
\* is null.
C10_FilterIsConjunction ==
    IF reportData = NullReport THEN RenderedRows = <<>>
    ELSE LET all == reportData.productSalesDetails
             Wanted(p) ==
                 /\ selectedCategory = "all" \/ p.category = selectedCategory
                 /\ selectedBrand = "all" \/ p.brand = selectedBrand
                 /\ searchQuery = <<>> \/ OccursIn(searchQuery, p.name) \/ OccursIn(searchQuery, p.id)
         IN  /\ \A i \in 1..Len(RenderedRows) : Wanted(RenderedRows[i])
             /\ \A i \in 1..Len(all) :
                   Wanted(all[i]) => \E j \in 1..Len(RenderedRows) : RenderedRows[j] = all[i]
             /\ \E pos \in [1..Len(RenderedRows) -> 1..Len(all)] :
                   /\ \A j \in 1..Len(RenderedRows) : all[pos[j]] = RenderedRows[j]
                   /\ \A j, k \in 1..Len(RenderedRows) : j < k => pos[j] < pos[k]

\* all three filters are set, a product passes them by a match that needs the
\* case folded, and products that satisfy only some of them are left out
C10_Witness ==
    /\ reportData # NullReport
    /\ selectedCategory = "Electronics"
    /\ selectedBrand = "TechBrand"
    /\ searchQuery = <<"a">>
    /\ Len(RenderedRows) = 1
    /\ Len(reportData.productSalesDetails) = 4

(***************************************************************************)
(* Properties of the product summary.                                      *)
(***************************************************************************)
\* the line items <<bill, item>> of product id in the bills created on a day of
\* the date range
LinesOf(id) ==
    { ln \in { <<b, i>> : b \in 1..Len(bills), i \in 1..MaxItems + 1 } :
        /\ ln[2] <= Len(bills[ln[1]].items)
        /\ DayOf(bills[ln[1]].createdAt) >= DayOf(dateRange.from)
        /\ DayOf(bills[ln[1]].createdAt) <= DayOf(dateRange.to)
        /\ bills[ln[1]].items[ln[2]].product # NullProduct
        /\ bills[ln[1]].items[ln[2]].product.id = id }

LineValue(ln, what) ==
    LET item == bills[ln[1]].items[ln[2]]
    IN  CASE what = "quantity" -> item.quantity
          [] what = "revenue"  -> item.productPrice * item.quantity
          [] OTHER             -> (item.productPrice - item.product.buyingPrice) * item.quantity

RECURSIVE SumLines(_, _)
SumLines(lines, what) ==
    IF lines = {} THEN 0
    ELSE LET ln == CHOOSE l \in lines : TRUE
         IN  LineValue(ln, what) + SumLines(lines \ {ln}, what)

ProductIds == { P1.id, P2.id }

\* C5: for every product id the summary's quantity, revenue and profit are the
\* sums of quantity, price*quantity and (price - cost)*quantity over all its line
\* items in the bills of the date range; a product with no such line item has no
\* summary.
C5_TotalsAreSums ==
    generated.called =>
        \A id \in ProductIds :
            LET found == { k \in 1..Len(generated.productSalesDetails) :
                              generated.productSalesDetails[k].id = id }
            IN  IF LinesOf(id) = {} THEN found = {}
                ELSE /\ Cardinality(found) = 1
                     /\ \A k \in found :
                           LET sum == generated.productSalesDetails[k]
                           IN  /\ sum.totalQuantity = SumLines(LinesOf(id), "quantity")
                               /\ sum.totalRevenue  = SumLines(LinesOf(id), "revenue")
                               /\ sum.totalProfit   = SumLines(LinesOf(id), "profit")

\* the two P1 items of the example (3 and 2 at price 50, cost 30), in two bills
C5_Witness ==
    /\ generated.called
    /\ Cardinality(LinesOf(P1.id)) = 2
    /\ \E a, b \in LinesOf(P1.id) : a[1] # b[1]
    /\ \E k \in 1..Len(generated.productSalesDetails) :
          /\ generated.productSalesDetails[k].id = P1.id
          /\ generated.productSalesDetails[k].totalQuantity = 5
          /\ generated.productSalesDetails[k].totalRevenue = 250
          /\ generated.productSalesDetails[k].totalProfit = 100

\* C6: with no product summary both mostSellingProduct and mostProfitableProduct
\* are null; otherwise each is one of the summaries, and no summary has a strictly
\* greater totalQuantity (totalProfit).
C6_ArgmaxOrNull ==
    generated.called =>
        LET details == generated.productSalesDetails
        IN  IF details = <<>>
            THEN /\ generated.mostSellingProduct = NullSummary
                 /\ generated.mostProfitableProduct = NullSummary
            ELSE /\ \E k \in 1..Len(details) : details[k] = generated.mostSellingProduct
                 /\ \E k \in 1..Len(details) : details[k] = generated.mostProfitableProduct
                 /\ \A k \in 1..Len(details) :
                       /\ details[k].totalQuantity <= generated.mostSellingProduct.totalQuantity
                       /\ details[k].totalProfit <= generated.mostProfitableProduct.totalProfit

\* two summaries; the best seller is not the first in the map and is another
\* product than the most profitable one
C6_Witness ==
    /\ generated.called
    /\ Len(generated.productSalesDetails) = 2
    /\ generated.mostSellingProduct = generated.productSalesDetails[2]
    /\ generated.mostProfitableProduct = generated.productSalesDetails[1]
    /\ generated.productSalesDetails[1].totalQuantity < generated.productSalesDetails[2].totalQuantity
    /\ generated.productSalesDetails[2].totalProfit < generated.productSalesDetails[1].totalProfit

(***************************************************************************)
(* Properties of the read operations.                                      *)
(***************************************************************************)
\* C11: a read operation whose query the backend answers with an error rejects
\* with that very error value and without a value; the failed query is the last
\* one it sent and no query is sent twice (no retry).
C11_ErrorsPropagate ==
    /\ \A i \in 1..Len(queryLog) :
          queryLog[i].error # NoError =>
              /\ i = Len(queryLog)
              /\ readCall.outcome =
                    [state |-> "rejected", value |-> NoValue, error |-> queryLog[i].error]
    /\ \A i, j \in 1..Len(queryLog) : i # j => queryLog[i].table # queryLog[j].table
    /\ readCall.outcome.state = "rejected" =>
          queryLog # <<>> /\ queryLog[Len(queryLog)].error # NoError

\* getDashboardStats has its third query fail after the first two gave it sums
C11_Witness ==
    /\ readCall.op = "stats"
    /\ readCall.outcome.state = "rejected"
    /\ Len(queryLog) = 3
    /\ readCall.held.totalSales > 0
    /\ readCall.outcome.error \in BackendErrors

\* the rows of bill_items that name product id
RowsOf(id) == SelectSeq(billItemsTable, LAMBDA row : row.product_id = id)

RECURSIVE SumQuantities(_)
SumQuantities(rows) ==
    IF rows = <<>> THEN 0
    ELSE (IF Head(rows).quantityIsNull THEN 0 ELSE Head(rows).quantity) + SumQuantities(Tail(rows))

\* the product ids the rows of bill_items name
SoldIds == { billItemsTable[i].product_id : i \in 1..Len(billItemsTable) } \ { NullId }

\* C12: a line item without product reference is passed over. generateSalesData
\* returns one summary for each product that has a line item and no other, with
\* the quantities of that product's items added up; getDashboardStats returns
\* entries of products that rows of bill_items name, each with the quantities of
\* that product's rows added up, as many as there are such products (5 at most);
\* neither call fails.
C12_MissingProductSkipped ==
    /\ generated.called =>
          LET details == generated.productSalesDetails
          IN  /\ \A k \in 1..Len(details) :
                    /\ details[k].id \in ProductIds
                    /\ LinesOf(details[k].id) # {}
                    /\ details[k].totalQuantity = SumLines(LinesOf(details[k].id), "quantity")
              /\ \A id \in ProductIds :
                    Cardinality({ k \in 1..Len(details) : details[k].id = id }) =
                        (IF LinesOf(id) = {} THEN 0 ELSE 1)
    /\ (readCall.op = "stats" /\ readCall.pc = "done" /\ queryLog[Len(queryLog)].error = NoError) =>
          /\ readCall.outcome.state = "fulfilled"
          /\ LET top == readCall.outcome.value.topSellingProducts
             IN  /\ \A k \in 1..Len(top) :
                       /\ top[k].product.id \in SoldIds
                       /\ top[k].soldCount = SumQuantities(RowsOf(top[k].product.id))
                 /\ Len(top) = Min(TopCount, Cardinality(SoldIds))
                 /\ \A k, l \in 1..Len(top) : k # l => top[k].product.id # top[l].product.id

\* a bill whose first line item has no product and whose second is of product P1,
\* summarised as P1 alone; and a bill_items table with a row without product_id,
\* counted as product 1 alone
C12_Witness ==
    /\ generated.called
    /\ Len(bills) = 1
    /\ Len(bills[1].items) = 2
    /\ bills[1].items[1].product = NullProduct
    /\ bills[1].items[2].product = P1
    /\ Len(generated.productSalesDetails) = 1
    /\ generated.productSalesDetails[1].totalQuantity = bills[1].items[2].quantity
    /\ readCall.op = "stats"
    /\ readCall.outcome.state = "fulfilled"
    /\ \E i \in 1..Len(billItemsTable) : billItemsTable[i].product_id = NullId
    /\ Len(readCall.outcome.value.topSellingProducts) = 1

\* the bill was created on a day from the day of dateRange.from to the day of
\* dateRange.to
OnDayOfRange(bill) ==
    DayOf(bill.createdAt) >= DayOf(dateRange.from) /\ DayOf(bill.createdAt) <= DayOf(dateRange.to)

\* the quantities of the line items with a product, over a list of bills
RECURSIVE QuantitySold(_)
QuantitySold(billList) ==
    IF billList = <<>> THEN 0
    ELSE LET items == SelectSeq(Head(billList).items, LAMBDA item : item.product # NullProduct)
             RECURSIVE Sum(_)
             Sum(k) == IF k = 0 THEN 0 ELSE items[k].quantity + Sum(k - 1)
         IN  Sum(Len(items)) + QuantitySold(Tail(billList))

RECURSIVE QuantitySummarised(_)
QuantitySummarised(details) ==
    IF details = <<>> THEN 0 ELSE Head(details).totalQuantity + QuantitySummarised(Tail(details))

\* C13: recentTransactions is the list of the bills created from the first instant
\* of the day of dateRange.from to the last instant of the day of dateRange.to, in
\* their order, and what the summaries add up is what these bills sold: a bill is
\* accumulated if and only if it is one of them.
C13_DateRangeInclusive ==
    generated.called =>
        /\ generated.recentTransactions = SelectSeq(bills, OnDayOfRange)
        /\ QuantitySummarised(generated.productSalesDetails) =
              QuantitySold(SelectSeq(bills, OnDayOfRange))

\* the week that ended yesterday is selected; a bill of the last instant of its
\* last day (later than dateRange.to) is accumulated, a bill of the first instant
\* of today is not
C13_Witness ==
    /\ generated.called
    /\ dateRange.to = startOfDay(subDays(now, 1))
    /\ Len(bills) = 2
    /\ bills[1].createdAt = endOfDay(subDays(now, 1))
    /\ bills[1].createdAt > dateRange.to
    /\ bills[2].createdAt = startOfDay(now)
    /\ generated.recentTransactions = << bills[1] >>
    /\ QuantitySold(<< bills[2] >>) > 0
    /\ QuantitySummarised(generated.productSalesDetails) = QuantitySold(<< bills[1] >>)
    /\ QuantitySold(<< bills[1] >>) > 0

\* C14: topSellingProducts has at most 5 entries, in non-increasing order of
\* soldCount; each soldCount is the sum of the quantities of all rows of
\* bill_items with that product id, and no product left out has sold strictly
\* more than a product included.
C14_TopFive ==
    (readCall.op = "stats" /\ readCall.outcome.state = "fulfilled") =>
        LET top == readCall.outcome.value.topSellingProducts
            included == { top[k].product.id : k \in 1..Len(top) }
        IN  /\ Len(top) <= 5
            /\ \A k, l \in 1..Len(top) : k < l => top[k].soldCount >= top[l].soldCount
            /\ \A k \in 1..Len(top) : top[k].soldCount = SumQuantities(RowsOf(top[k].product.id))
            /\ \A id \in SoldIds \ included :
                  \A k \in 1..Len(top) : SumQuantities(RowsOf(id)) <= top[k].soldCount

\* six products sold, one of them in two rows; five are returned, not all with the
\* same count, and the first rows of the table are not the first entries
C14_Witness ==
    /\ readCall.op = "stats"
    /\ readCall.outcome.state = "fulfilled"
    /\ Cardinality(SoldIds) = 6
    /\ Len(RowsOf(ProductId(1))) = 2
    /\ LET top == readCall.outcome.value.topSellingProducts
       IN  /\ Len(top) = 5
           /\ top[1].soldCount > top[5].soldCount
           /\ top[1].product.id # billItemsTable[1].product_id
           /\ SumQuantities(RowsOf(billItemsTable[1].product_id)) < top[1].soldCount

(***************************************************************************)
(* Properties of the view.                                                 *)
(***************************************************************************)
\* C15: the fetch batches issued or due are one for the mount and one for each
\* selection of a date range, and a step that changes the category filter, the
\* brand filter, the search text or the active tab issues no batch, makes none
\* due and leaves reportData as it is.
C15_FetchOnlyOnRangeChange ==
    /\ [](Len(refreshes) + Len(pendingEffects) = 1 + rangeSelections)
    /\ [][ (\/ selectedCategory' # selectedCategory
            \/ selectedBrand' # selectedBrand
            \/ searchQuery' # searchQuery
            \/ activeTab' # activeTab)
           => /\ refreshes' = refreshes
              /\ pendingEffects' = pendingEffects
              /\ reportData' = reportData ]_vars

\* the mount and one selection have each issued their batch, the second report is
\* shown, and in the products tab all three filters have been set
C15_Witness ==
    /\ rangeSelections = 1
    /\ Len(refreshes) = 2
    /\ pendingEffects = <<>>
    /\ ShowsRefresh(reportData, 2)
    /\ activeTab = "products"
    /\ selectedCategory = "Electronics"
    /\ selectedBrand = "TechBrand"
    /\ searchQuery = <<"a">>

\* C16: after every handleDownload isDownloading is false; a call in which the
\* generation of the report throws creates and clicks no link, saves no file and
\* shows the failure notification.
C16_DownloadFailure ==
    /\ [](~isDownloading)
    /\ [][ (downloads' # downloads /\ downloads'[Len(downloads')].threw)
           => /\ domLinks' = domLinks
              /\ savedFiles' = savedFiles
              /\ lastToast' = DownloadFailedToast
              /\ ~isDownloading' ]_vars

\* a download succeeded and the next one failed: one file, and the failure is the
\* notification shown
C16_Witness ==
    /\ Len(downloads) = 2
    /\ ~downloads[1].threw
    /\ downloads[2].threw
    /\ Len(savedFiles) = 1
    /\ lastToast = DownloadFailedToast
    /\ ~isDownloading

\* C17: generateSalesData is a pure function of its inputs: a call changes neither
\* the bills handed over nor any state of the view, and a call with the bills and
\* the date range of the call before returns what that call returned.
C17_PureFunction ==
    [][ generated' # generated
        => /\ bills' = bills
           /\ fetchVars' = fetchVars
           /\ filterVars' = filterVars
           /\ downloadVars' = downloadVars
           /\ (generated.called /\ bills' = bills /\ dateRange' = dateRange
                  => generated' = generated) ]_vars

AggregatorOps == {"daily", "weekly", "monthly", "yearly"}

\* the rows the query of an aggregator returns
QueriedRows(op) ==
    CASE op = "daily"   -> DailyQuery(now, billsTable)
      [] op = "weekly"  -> WeeklyQuery(now, billsTable)
      [] op = "monthly" -> MonthlyQuery(now, billsTable)
      [] OTHER          -> YearlyQuery(now, billsTable)

\* what the last call returned, if it was an aggregator and has returned
ReturnedPoints ==
    IF readCall.op \in AggregatorOps /\ readCall.outcome.state = "fulfilled"
    THEN readCall.outcome.value.points
    ELSE <<>>

\* the bucket sums are non-negative when no returned row has a negative total, and
\* any total, negative or not, is added as it is
BucketSumsFollowInputs ==
    (readCall.op \in AggregatorOps /\ readCall.outcome.state = "fulfilled") =>
        LET rows == QueriedRows(readCall.op)
        IN  /\ (\A r \in 1..Len(rows) : rows[r].total >= 0)
                  => \A e \in 1..Len(ReturnedPoints) : ReturnedPoints[e].sales >= 0
            /\ SumSales(ReturnedPoints) = SumTotals(rows)

\* no line of product id in the date range has a negative quantity, price or cost
LinesNonNegative(id) ==
    \A ln \in LinesOf(id) :
        LET item == bills[ln[1]].items[ln[2]]
        IN  item.quantity >= 0 /\ item.productPrice >= 0 /\ item.product.buyingPrice >= 0

\* no line of product id in the date range was sold below cost
LinesAtOrAboveCost(id) ==
    \A ln \in LinesOf(id) :
        bills[ln[1]].items[ln[2]].productPrice >= bills[ln[1]].items[ln[2]].product.buyingPrice

\* C18 as stated: when every input amount, quantity, price and cost is non-negative,
\* every bucket sum and every product's total quantity, revenue and profit is
\* non-negative; a negative input is added as it is.
C18_NonNegativeTotals ==
    /\ BucketSumsFollowInputs
    /\ generated.called =>
          \A k \in 1..Len(generated.productSalesDetails) :
             LET sum == generated.productSalesDetails[k]
             IN  /\ sum.totalQuantity = SumLines(LinesOf(sum.id), "quantity")
                 /\ LinesNonNegative(sum.id) =>
                       /\ sum.totalQuantity >= 0
                       /\ sum.totalRevenue >= 0
                       /\ sum.totalProfit >= 0

\* C18, amended: when every input amount, quantity, price and cost is non-negative,
\* every bucket sum and every product's total quantity and revenue is non-negative,
\* and a product's total profit is non-negative when moreover none of its lines
\* was sold below cost; a negative input is added as it is.
C18_NonNegativeUnlessBelowCost ==
    /\ BucketSumsFollowInputs
    /\ generated.called =>
          \A k \in 1..Len(generated.productSalesDetails) :
             LET sum == generated.productSalesDetails[k]
             IN  /\ sum.totalQuantity = SumLines(LinesOf(sum.id), "quantity")
                 /\ LinesNonNegative(sum.id) =>
                       /\ sum.totalQuantity >= 0
                       /\ sum.totalRevenue >= 0
                       /\ LinesAtOrAboveCost(sum.id) => sum.totalProfit >= 0

\* the daily aggregator has returned a bucket of 100 over non-negative rows, and
\* the summarizer a product of non-negative lines, one of them sold below cost,
\* with a positive quantity and revenue and a negative profit
C18_Witness ==
    /\ readCall.op = "daily"
    /\ \E e \in 1..Len(ReturnedPoints) : ReturnedPoints[e].sales = 100
    /\ generated.called
    /\ Len(generated.productSalesDetails) = 1
    /\ LinesNonNegative(P1.id)
    /\ ~LinesAtOrAboveCost(P1.id)
    /\ generated.productSalesDetails[1].id = P1.id
    /\ generated.productSalesDetails[1].totalQuantity = 1
    /\ generated.productSalesDetails[1].totalRevenue = 20
    /\ generated.productSalesDetails[1].totalProfit = -10

\* C19: every row an aggregator's query returns is filed under a label of the
\* requested window, computed by the rule that seeded the window, so that the
\* output has no label that was not seeded, whatever weekday today is.
C19_RowsInSeededBuckets ==
    salesSeries.kind # "none" =>
        LET seeded == WindowLabels(salesSeries.kind)
        IN  /\ \A r \in 1..Len(salesSeries.rows) :
                  InSeq(seeded, RowLabel(salesSeries.kind, salesSeries.rows[r].created_at))
            /\ \A e \in 1..Len(salesSeries.points) : InSeq(seeded, salesSeries.points[e].label)

\* the returned rows created in month m of any year
RowsOfMonth(m) == SelectSeq(salesSeries.rows, LAMBDA r : DateOf(r.created_at).m = m)

\* C20: the monthly aggregator keys a row by its month name only: the output has
\* one bucket per month name, and the bucket of a row's month holds the totals of
\* all returned rows of that month, whatever their years.
C20_MonthNameOnly ==
    salesSeries.kind = "monthly" =>
        \A r \in 1..Len(salesSeries.rows) :
            LET m       == DateOf(salesSeries.rows[r].created_at).m
                buckets == { e \in 1..Len(salesSeries.points) : salesSeries.points[e].label.m = m }
            IN  /\ Cardinality(buckets) = 1
                /\ \A e \in buckets : salesSeries.points[e].sales = SumTotals(RowsOfMonth(m))

\* two returned rows of the same month in different years, each with a positive
\* total, in one bucket that holds both totals
C20_Witness ==
    /\ salesSeries.kind = "monthly"
    /\ Len(salesSeries.rows) = 2
    /\ DateOf(salesSeries.rows[1].created_at).m = DateOf(salesSeries.rows[2].created_at).m
    /\ DateOf(salesSeries.rows[1].created_at).y # DateOf(salesSeries.rows[2].created_at).y
    /\ salesSeries.rows[1].total > 0
    /\ salesSeries.rows[2].total > 0
    /\ \E e \in 1..Len(salesSeries.points) :
          /\ salesSeries.points[e].label.m = DateOf(salesSeries.rows[1].created_at).m
          /\ salesSeries.points[e].sales = salesSeries.rows[1].total + salesSeries.rows[2].total

\* <<bill, item>> a comes before <<bill, item>> b in input order
LineBefore(a, b) == a[1] < b[1] \/ (a[1] = b[1] /\ a[2] < b[2])

\* the first line of product id in input order
FirstLine(id) == CHOOSE ln \in LinesOf(id) : \A other \in LinesOf(id) : other = ln \/ LineBefore(ln, other)

\* the first member of details with the greatest value of field
FirstGreatest(details, field) ==
    LET k == CHOOSE i \in 1..Len(details) :
                /\ \A j \in 1..Len(details) : details[j][field] <= details[i][field]
                /\ \A j \in 1..(i - 1) : details[j][field] < details[i][field]
    IN  details[k]

\* C21: the summaries stand in the order in which their products were first seen in
\* the input, and among the products that tie for the greatest totalQuantity
\* (totalProfit) mostSellingProduct (mostProfitableProduct) is the first of them.
C21_TiesGoToFirstSeen ==
    (generated.called /\ generated.productSalesDetails # <<>>) =>
        LET details == generated.productSalesDetails
        IN  /\ \A i, j \in 1..Len(details) :
                  i < j => LineBefore(FirstLine(details[i].id), FirstLine(details[j].id))
            /\ generated.mostSellingProduct = FirstGreatest(details, "totalQuantity")
            /\ generated.mostProfitableProduct = FirstGreatest(details, "totalProfit")

\* P2 was seen before P1 and both have quantity 3 and profit 60: P2 is both the
\* most selling and the most profitable product
C21_Witness ==
    /\ generated.called
    /\ Len(bills) = 1
    /\ bills[1].items = << TiedItem, [product |-> P1, productPrice |-> 50, quantity |-> 3] >>
    /\ Len(generated.productSalesDetails) = 2
    /\ generated.productSalesDetails[1].totalQuantity = generated.productSalesDetails[2].totalQuantity
    /\ generated.productSalesDetails[1].totalProfit = generated.productSalesDetails[2].totalProfit
    /\ generated.mostSellingProduct.id = P2.id
    /\ generated.mostProfitableProduct.id = P2.id

\* C22: lastSoldAt of a product's summary is the creation timestamp of the latest
\* bill of the date range that has a line item of the product, in whatever order
\* the bills were handed over.
C22_LastSoldIsLatest ==
    generated.called =>
        \A k \in 1..Len(generated.productSalesDetails) :
            LET sum   == generated.productSalesDetails[k]
                times == { bills[ln[1]].createdAt : ln \in LinesOf(sum.id) }
            IN  /\ sum.lastSoldAt \in times
                /\ \A t \in times : t <= sum.lastSoldAt

\* every refresh that was issued has settled and none is waiting to be issued
AllSettled ==
    /\ pendingEffects = <<>>
    /\ refreshes # <<>>
    /\ \A r \in 1..Len(refreshes) : refreshes[r].state # "inflight"

C24_DeletedBillNotSelected ==
    [][ \A d \in 1..Len(deletions) :
           (deletions[d].pc # "done" /\ deletions'[d].pc = "done")
              => /\ selectedBill' # deletions[d].billId
                 /\ ~(isReceiptOpen' /\ selectedBill' = deletions[d].billId) ]_vars

\* the rows of the products table with a numeric stock in the given range
StockedBetween(lo, hi) ==
    { i \in 1..Len(productsTable) :
        /\ productsTable[i].stockIsNumber
        /\ lo <= productsTable[i].stock
        /\ productsTable[i].stock <= hi }

\* the rows with numeric stock and threshold and 0 < stock <= threshold
LowRows ==
    { i \in 1..Len(productsTable) :
        /\ productsTable[i].thresholdIsNumber
        /\ i \in StockedBetween(1, productsTable[i].low_stock_threshold) }

\* C25: getDashboardStats counts as low-stock the products whose stock and
\* threshold are numbers with 0 < stock <= threshold and as out-of-stock those
\* whose stock is the number 0; no product is in both counts, one with a negative
\* or non-numeric stock is in neither, and the two counts together never exceed
\* the number of products.
C25_StockCountsDisjoint ==
    (readCall.op = "stats" /\ readCall.outcome.state = "fulfilled") =>
        LET stats   == readCall.outcome.value
            counted == LowRows \cup StockedBetween(0, 0)
        IN  /\ stats.lowStockItems = Cardinality(LowRows)
            /\ stats.outOfStockItems = Cardinality(StockedBetween(0, 0))
            /\ stats.lowStockItems + stats.outOfStockItems = Cardinality(counted)
            /\ \A i \in counted : productsTable[i].stockIsNumber /\ productsTable[i].stock >= 0
            /\ stats.lowStockItems + stats.outOfStockItems <= Len(productsTable)

\* a product out of stock and one of negative stock: one is counted, as out of
\* stock only
C25_Witness ==
    /\ readCall.op = "stats"
    /\ readCall.outcome.state = "fulfilled"
    /\ Len(productsTable) = 2
    /\ productsTable[1].stockIsNumber /\ productsTable[1].stock = 0
    /\ productsTable[2].stockIsNumber /\ productsTable[2].stock < 0
    /\ readCall.outcome.value.lowStockItems = 0
    /\ readCall.outcome.value.outOfStockItems = 1

\* C26: in Login, isLoading is true exactly while a handleLogin call awaits login;
\* it is false once the call has ended, whether by the early return for an empty
\* email or password (login is then never invoked), by login resolving or by
\* login rejecting.
C26_LoadingOnlyWhileAwaiting ==
    /\ loginIsLoading <=> \E c \in 1..Len(loginCalls) : loginCalls[c].state = "awaiting"
    /\ \A c \in 1..Len(loginCalls) :
          /\ loginCalls[c].invoked <=> (loginCalls[c].email # "" /\ loginCalls[c].password # "")
          /\ loginCalls[c].invoked <=> loginCalls[c].state \in {"awaiting", "resolved", "rejected"}

\* three calls have ended, one by each path, and the button is enabled
C26_Witness ==
    /\ Len(loginCalls) = 3
    /\ loginCalls[1].state = "returned"
    /\ loginCalls[1].password = ""
    /\ loginCalls[2].state = "rejected"
    /\ loginCalls[3].state = "resolved"
    /\ ~loginIsLoading

====
